---------------------------- MODULE Spec2Model ----------------------------
(***************************************************************************)
(* Model of git-pkgs/managers: the command Translator (BuildCommand,       *)
(* BuildCommands, buildSingleCommand, expandFlag, validate, isTruthy),     *)
(* the package-name validator and the GenericManager / Runner layer.       *)
(*                                                                         *)
(* Go maps are modelled as functions with a finite DOMAIN.  The order in   *)
(* which `for k, v := range m` visits a map is unspecified in Go, so every *)
(* loop over a map takes the visiting order as a parameter (a permutation  *)
(* of the map's keys) and the actions choose it nondeterministically.      *)
(***************************************************************************)
EXTENDS Integers, Sequences, FiniteSets, TLC

(***************************************************************************)
(* Bounds of the model.                                                    *)
(***************************************************************************)
\* largest number of entries of CommandInput.Flags a caller supplies
MaxFlags == 2
\* largest number of tokens of CommandInput.Extra a caller supplies
MaxExtra == 2

(***************************************************************************)
(* Generic helpers.                                                        *)
(***************************************************************************)
\* the empty Go map
EmptyMap == <<>>

\* every order in which a range loop may visit the keys S of a map
Perms(S) ==
  {f \in [1..Cardinality(S) -> S] :
     \A i, j \in 1..Cardinality(S) : i # j => f[i] # f[j]}

\* index of the first element of seq, at or after i, that equals x; 0 if none
RECURSIVE IndexFrom(_, _, _)
IndexFrom(seq, x, i) ==
  IF i > Len(seq) THEN 0
  ELSE IF seq[i] = x THEN i
  ELSE IndexFrom(seq, x, i + 1)

\* a name of n letters
RECURSIVE LongName(_)
LongName(n) ==
  IF n = 0 THEN ""
  ELSE IF n % 2 = 0 THEN LET half == LongName(n \div 2) IN half \o half
  ELSE "a" \o LongName(n - 1)

\* the characters of the strings the model uses
Lower == {"a", "b", "c", "d", "e", "f", "g", "h", "i", "j", "k", "l", "m",
          "n", "o", "p", "q", "r", "s", "t", "u", "v", "w", "x", "y", "z"}
Digit == {"0", "1", "2", "3", "4", "5", "6", "7", "8", "9"}

Chars(name) ==
  CASE name = "" -> <<>>
    [] name = "lodash" -> <<"l", "o", "d", "a", "s", "h">>
    [] name = "npm" -> <<"n", "p", "m">>
    [] name = "bad name" -> <<"b", "a", "d", " ", "n", "a", "m", "e">>
    [] name = "1.0" -> <<"1", ".", "0">>
    [] name = "u" -> <<"u">>
    [] name = "Dir" -> <<"D", "i", "r">>
    [] name = "name" -> <<"n", "a", "m", "e">>
    [] name = "path" -> <<"p", "a", "t", "h">>
    [] name = "pkgs" -> <<"p", "k", "g", "s">>
    [] name = "/x/y" -> <<"/", "x", "/", "y">>
    [] name = "/x/y/f" -> <<"/", "x", "/", "y", "/", "f">>
    [] name = "/n/f" -> <<"/", "n", "/", "f">>
    [] name = "f" -> <<"f">>
    [] name = "oops" -> <<"o", "o", "p", "s">>
    [] name = "{package}" -> <<"{", "p", "a", "c", "k", "a", "g", "e", "}">>
    [] name = "m/{package}" ->
         <<"m", "/", "{", "p", "a", "c", "k", "a", "g", "e", "}">>
    [] name = "m/{package}/f" ->
         <<"m", "/", "{", "p", "a", "c", "k", "a", "g", "e", "}", "/", "f">>
    [] name = "Path:" -> <<"P", "a", "t", "h", ":">>
    [] name = "dir=" -> <<"d", "i", "r", "=">>
    [] name = "dir=(\\S+)" -> <<"d", "i", "r", "=", "(", "\\", "S", "+", ")">>
    [] name = "dir=\\S+" -> <<"d", "i", "r", "=", "\\", "S", "+">>
    [] name = "(" -> <<"(">>
    [] name = LongName(129) -> [i \in 1..129 |-> "a"]
    [] name = LongName(215) -> [i \in 1..215 |-> "a"]
    [] name = LongName(215) \o " " -> [i \in 1..216 |-> IF i = 216 THEN " " ELSE "a"]

(***************************************************************************)
(* Flag values (CommandInput.Flags is map[string]any).                     *)
(***************************************************************************)
BoolV(b) == [t |-> "bool", b |-> b, s |-> ""]
StrV(s)  == [t |-> "string", b |-> FALSE, s |-> s]
NilV     == [t |-> "nil", b |-> FALSE, s |-> ""]
OtherV   == [t |-> "int", b |-> FALSE, s |-> ""]

(***************************************************************************)
(* Errors (unnamed/part_000) and results.                                  *)
(***************************************************************************)
NoErr == [kind |-> "nil", name |-> "", reason |-> ""]
ErrUnknownManager(managerName) ==
  [kind |-> "unknown manager", name |-> managerName, reason |-> ""]
ErrUnsupportedOperation ==
  [kind |-> "ErrUnsupportedOperation", name |-> "", reason |-> ""]
ErrMissingArgument(argument) ==
  [kind |-> "ErrMissingArgument", name |-> argument, reason |-> ""]
ErrInvalidPackageName(name, reason) ==
  [kind |-> "ErrInvalidPackageName", name |-> name, reason |-> reason]

\* a ([]string, error) pair; isNil tells a nil slice from an empty one
Ok(tokens) == [tokens |-> tokens, isNil |-> FALSE, err |-> NoErr]
Fail(err)  == [tokens |-> <<>>, isNil |-> TRUE, err |-> err]

\* a ([][]string, error) pair
OkChain(chain) == [chain |-> chain, isNil |-> FALSE, err |-> NoErr]
FailChain(err) == [chain |-> <<>>, isNil |-> TRUE, err |-> err]

(***************************************************************************)
(* Definition schema (definitions/schema.go).                              *)
(***************************************************************************)
\* definitions.Arg; the zero value of every field but the ones a rule sets
Arg == [Position |-> 0, Required |-> FALSE, Validate |-> "", Flag |-> "",
        Suffix |-> "", FixedSuffix |-> "", ExtractionOnly |-> FALSE]

\* definitions.FlagValue, as Flag.UnmarshalYAML builds them
Literal(lit)  == [Literal |-> lit, Field |-> "", Join |-> ""]
ValueOf(field) == [Literal |-> "", Field |-> field, Join |-> ""]

\* the items of a YAML sequence, as yaml.v3 decodes them into []interface{}:
\* a string, a map (of which only the string values under "value" and "join"
\* are read; "" stands for a key that is absent or not a string), or a
\* scalar of another type
YString(str) == [kind |-> "string", str |-> str, value |-> "", join |-> ""]
YMap(value, join) == [kind |-> "map", str |-> "", value |-> value, join |-> join]
YOther == [kind |-> "int", str |-> "", value |-> "", join |-> ""]

\* Flag.UnmarshalYAML: the Values a Flag holds after decoding raw
RECURSIVE UnmarshalYAML(_)
UnmarshalYAML(raw) ==
  IF raw = <<>> THEN <<>>
  ELSE LET v == Head(raw)
           fv == [Literal |-> "", Field |-> v.value, Join |-> v.join]
       IN  (CASE v.kind = "string" -> <<Literal(v.str)>>
              [] v.kind = "map" -> IF fv.Field # "" THEN <<fv>> ELSE <<>>
              [] OTHER -> <<>>)
           \o UnmarshalYAML(Tail(raw))

\* definitions.Extract; isNil tells a nil *Extract; Prefix and Pattern are
\* sequences of characters
Extract == [isNil |-> FALSE, Type |-> "", Field |-> "", Prefix |-> <<>>,
            Pattern |-> <<>>, ArrayField |-> "", MatchField |-> "",
            ExtractField |-> "", StripFilename |-> FALSE]
NilExtract == [Extract EXCEPT !.isNil = TRUE]

\* definitions.Command; Then holds Commands whose own Then is empty
Command == [Base |-> <<>>, BaseOverrides |-> EmptyMap, Args |-> EmptyMap,
            Flags |-> EmptyMap, DefaultFlags |-> <<>>, Extract |-> NilExtract,
            Then |-> <<>>]

(***************************************************************************)
(* The Definitions the model registers.  NpmDef has the shape of the       *)
(* embedded npm definition the tests exercise (base override, version      *)
(* suffix, validated package, extraction-only path arg); TestDef is a      *)
(* synthetic definition like the ones the manager tests build: two         *)
(* positional args, default flags and a `then` chain whose second command  *)
(* has a required flag-style arg.                                          *)
(***************************************************************************)
NpmDef ==
  [Name |-> "npm", Binary |-> "npm",
   Commands |->
     ("install" :>
        [Command EXCEPT
           !.Base = <<"install">>,
           !.BaseOverrides = ("frozen" :> <<"ci">>) @@ ("clean" :> <<"clean-install">>),
           !.Flags = ("frozen" :> <<Literal("--frozen-lockfile")>>)
                     @@ ("dev" :> <<Literal("--include=dev")>>)])
     @@
     ("add" :>
        [Command EXCEPT
           !.Base = <<"install">>,
           !.Args = ("package" :> [Arg EXCEPT !.Position = 0, !.Required = TRUE,
                                              !.Validate = "package_name"])
                    @@ ("version" :> [Arg EXCEPT !.Position = 1, !.Suffix = "@"]),
           !.Flags = ("dev" :> <<Literal("--save-dev")>>)
                     @@ ("clean" :> <<Literal("--force")>>)])
     @@
     ("path" :>
        [Command EXCEPT
           !.Base = <<"why">>,
           !.Args = ("package" :> [Arg EXCEPT !.Position = 0, !.Required = TRUE,
                                              !.ExtractionOnly = TRUE]),
           !.Extract = [Extract EXCEPT !.Type = "template",
                                       !.Pattern = Chars("m/{package}")]])]

TestDef ==
  [Name |-> "testpkg", Binary |-> "testpkg",
   Commands |->
     ("add" :>
        [Command EXCEPT
           !.Base = <<"repo", "add">>,
           !.Args = ("package" :> [Arg EXCEPT !.Position = 0, !.Required = TRUE,
                                              !.Validate = "package_name"])
                    @@ ("url" :> [Arg EXCEPT !.Position = 1, !.Required = TRUE]),
           !.DefaultFlags = <<"--force-update">>,
           !.Then = << [Command EXCEPT
                          !.Base = <<"repo", "update">>,
                          !.Args = ("version" :> [Arg EXCEPT !.Position = 0,
                                                             !.Required = TRUE,
                                                             !.Flag = "--version"])] >>])]

\* the flags of the schema reference, as the YAML of a definition writes them
ExampleFlagsYaml ==
  ("dev" :> <<YString("--save-dev")>>)
  @@ ("workspace" :> <<YString("--workspace"), YMap("workspace", "")>>)
  @@ ("group" :> <<YString("--group"), YMap("group_name", "=")>>)
  @@ ("frozen" :> <<YString("--frozen-lockfile"), YOther, YMap("", "=")>>)

\* a definition loaded from YAML whose install command has those flags and
\* a base override
ExampleDef ==
  [Name |-> "example", Binary |-> "example",
   Commands |->
     ("install" :>
        [Command EXCEPT
           !.Base = <<"install">>,
           !.BaseOverrides = ("frozen" :> <<"ci">>),
           !.Flags = [name \in DOMAIN ExampleFlagsYaml |->
                        UnmarshalYAML(ExampleFlagsYaml[name])]])]

\* the definitions a caller may Register
Defs == {NpmDef, TestDef}

\* the manager and operation names a caller may ask for
ManagerNames == {d.Name : d \in Defs}
Operations == {"install", "add", "path"}

\* the validator a caller may RegisterValidator under the name "package_name"
\* (definitions.Validator; Translator.validate reads MaxLength only)
SixCharValidator == [Pattern |-> "^[a-z]+$", MaxLength |-> 6]

(***************************************************************************)
(* Package-name validation (validate.go).  A name is a string; Chars gives *)
(* the characters of the names the model uses, for the pattern match.      *)
(***************************************************************************)
\* ^[@a-zA-Z0-9][\w\-\./]*$ , over the characters of the model's names
MatchPackageName(name) ==
  LET cs == Chars(name)
  IN  /\ Len(cs) >= 1
      /\ cs[1] \in {"@"} \cup Lower \cup Digit
      /\ \A i \in 2..Len(cs) : cs[i] \in Lower \cup Digit \cup {"_", "-", ".", "/"}

\* ^[a-zA-Z0-9_-]+$
MatchGemName(name) ==
  LET cs == Chars(name)
  IN  /\ Len(cs) >= 1
      /\ \A i \in 1..Len(cs) : cs[i] \in Lower \cup Digit \cup {"_", "-"}

\* var maxLengths
maxLengths == ("package_name" :> 214) @@ ("npm_package" :> 214)
              @@ ("gem_name" :> 128) @@ ("cargo_crate" :> 64)
              @@ ("go_module" :> 256)

\* defaultValidators[validatorName].MatchString(name), with the fallback to
\* the package_name pattern for a name that is not in the table.  Of the
\* table only the package_name and gem_name rows are modelled: the Arg rules
\* of the model name no other validator.
MatchString(validatorName, name) ==
  IF validatorName = "gem_name" THEN MatchGemName(name)
  ELSE MatchPackageName(name)

\* ValidatePackageName that matches the pattern before it checks the length
ValidatePackageName_PatternFirst(validatorName, name) ==
  IF name = "" THEN ErrInvalidPackageName(name, "empty name")
  ELSE IF ~MatchString(validatorName, name)
       THEN ErrInvalidPackageName(name, "contains invalid characters")
  ELSE IF validatorName \in DOMAIN maxLengths /\ Len(name) > maxLengths[validatorName]
       THEN ErrInvalidPackageName(name, "exceeds maximum length")
  ELSE NoErr

ValidatePackageName(validatorName, name) ==
  IF name = "" THEN ErrInvalidPackageName(name, "empty name")
  ELSE IF validatorName \in DOMAIN maxLengths /\ Len(name) > maxLengths[validatorName]
       THEN ErrInvalidPackageName(name, "exceeds maximum length")
  ELSE IF ~MatchString(validatorName, name)
       THEN ErrInvalidPackageName(name, "contains invalid characters")
  ELSE NoErr

(***************************************************************************)
(* The Translator (unnamed/part_001).                                      *)
(***************************************************************************)
VARIABLES
  definitions,   \* Translator.definitions: manager name -> Definition
  validators,    \* Translator.validators: validator name -> Validator
  input,         \* the CommandInput of the caller's current request
  last,          \* the most recent call made with `input`, and what it returned
  mgr,           \* GenericManager.def: the name of the manager's Definition
  ran,           \* the calls the Runner received in the last operation: dir and args
  ret,           \* what the manager's or the PolicyRunner's last operation returned
  pr,            \* the PolicyRunner: policies, mode, handler
  call,          \* the last Run / RunWithContext call: its PolicyOperation
  checks,        \* the Check calls of that run, in order: policy index and outcome
  handled,       \* the OnPolicyResult calls of that run, in order
  innerRuns,     \* the calls pr.inner.Run received in that run: dir and args
  extraction,    \* the last ExtractPath call and what it returned
  validation,    \* the last ValidatePackageName call and what it returned
  detector,      \* Detector.definitions: the registered Definitions, in order
  detection,     \* the last Detect call and what it returned
  mdir           \* GenericManager.dir

\* CommandInput
CommandInput(args, flags, extra) == [Args |-> args, Flags |-> flags, Extra |-> extra]

\* isTruthy that takes every string, the empty one too, as truthy
isTruthy_EveryStringTruthy(val) ==
  IF val.t = "nil" THEN FALSE
  ELSE IF val.t = "bool" THEN val.b
  ELSE TRUE

isTruthy(val) ==
  IF val.t = "nil" THEN FALSE
  ELSE IF val.t = "bool" THEN val.b
  ELSE IF val.t = "string" THEN val.s # ""
  ELSE TRUE

\* val == false || val == "" || val == nil  (line 160)
IsAbsentFlagValue(val) ==
  \/ (val.t = "bool" /\ val.b = FALSE)
  \/ (val.t = "string" /\ val.s = "")
  \/ val.t = "nil"

\* Translator.validate: only a registered validator's MaxLength is checked
validate(vals, validatorName, value) ==
  IF validatorName \notin DOMAIN vals THEN NoErr
  ELSE IF vals[validatorName].MaxLength > 0 /\ Len(value) > vals[validatorName].MaxLength
       THEN ErrInvalidPackageName(value, "exceeds maximum length of")
  ELSE NoErr

\* the tokens one FlagValue contributes
expandFlagValue(v, flags) ==
  IF v.Literal # "" /\ v.Field # "" /\ v.Join # "" THEN
    IF v.Field \in DOMAIN flags /\ flags[v.Field].t = "string" /\ flags[v.Field].s # ""
    THEN <<v.Literal \o v.Join \o flags[v.Field].s>>
    ELSE <<>>
  ELSE IF v.Literal # "" THEN <<v.Literal>>
  ELSE IF v.Field # "" THEN
    IF v.Field \in DOMAIN flags /\ flags[v.Field].t = "string" /\ flags[v.Field].s # ""
    THEN <<flags[v.Field].s>>
    ELSE <<>>
  ELSE <<>>

RECURSIVE expandFlag(_, _)
expandFlag(flag, flags) ==
  IF flag = <<>> THEN <<>>
  ELSE expandFlagValue(Head(flag), flags) \o expandFlag(Tail(flag), flags)

\* lines 91-100: the flag whose override the loop picks when it visits
\* cmd.BaseOverrides in the order ovOrder; "" if none fires
RECURSIVE baseOverride(_, _, _)
baseOverride(cmd, in, ovOrder) ==
  IF ovOrder = <<>> THEN ""
  ELSE IF Head(ovOrder) \in DOMAIN in.Flags /\ isTruthy(in.Flags[Head(ovOrder)])
       THEN Head(ovOrder)
  ELSE baseOverride(cmd, in, Tail(ovOrder))

\* the tokens one provided arg appends (lines 125-137)
renderArg(name, argDef, val) ==
  IF argDef.Flag # "" THEN <<argDef.Flag, val>>
  ELSE IF argDef.FixedSuffix # "" THEN <<val \o argDef.FixedSuffix>>
  ELSE IF argDef.Suffix # "" /\ name = "version" THEN <<>>
  ELSE <<val>>

\* renderArgs with the `if argDef.Required` check of line 113 dropped
RECURSIVE renderArgs_SkipsMissing(_, _, _, _, _)
renderArgs_SkipsMissing(vals, cmd, in, argOrder, args) ==
  IF argOrder = <<>> THEN Ok(args)
  ELSE LET name == Head(argOrder)
           argDef == cmd.Args[name]
       IN  IF name \notin DOMAIN in.Args
           THEN renderArgs_SkipsMissing(vals, cmd, in, Tail(argOrder), args)
           ELSE LET val == in.Args[name]
                    verr == IF argDef.Validate # ""
                            THEN validate(vals, argDef.Validate, val)
                            ELSE NoErr
                IN  IF verr # NoErr THEN Fail(verr)
                    ELSE renderArgs_SkipsMissing(vals, cmd, in, Tail(argOrder),
                                                 args \o renderArg(name, argDef, val))

\* lines 110-138: the loop over cmd.Args, visiting the names in argOrder and
\* appending to args; returns the tokens or the first error met
RECURSIVE renderArgs(_, _, _, _, _)
renderArgs(vals, cmd, in, argOrder, args) ==
  IF argOrder = <<>> THEN Ok(args)
  ELSE LET name == Head(argOrder)
           argDef == cmd.Args[name]
       IN  IF name \notin DOMAIN in.Args
           THEN IF argDef.Required
                THEN Fail(ErrMissingArgument(name))
                ELSE renderArgs(vals, cmd, in, Tail(argOrder), args)
           ELSE LET val == in.Args[name]
                    verr == IF argDef.Validate # ""
                            THEN validate(vals, argDef.Validate, val)
                            ELSE NoErr
                IN  IF verr # NoErr THEN Fail(verr)
                    ELSE renderArgs(vals, cmd, in, Tail(argOrder),
                                    args \o renderArg(name, argDef, val))

\* lines 140-151: the version-suffix pass over the tokens built so far
versionSuffix(cmd, in, args) ==
  LET packageVal == IF "package" \in DOMAIN in.Args THEN in.Args["package"] ELSE ""
      i == IndexFrom(args, packageVal, 1)
  IN  IF /\ "version" \in DOMAIN cmd.Args
         /\ cmd.Args["version"].Suffix # ""
         /\ "version" \in DOMAIN in.Args
         /\ i # 0
      THEN [args EXCEPT ![i] = args[i] \o cmd.Args["version"].Suffix \o in.Args["version"]]
      ELSE args

\* userFlags without the `name == baseOverrideUsed` skip of line 165
RECURSIVE userFlags_NoOverrideSkip(_, _, _, _)
userFlags_NoOverrideSkip(cmd, in, baseOverrideUsed, flagOrder) ==
  IF flagOrder = <<>> THEN <<>>
  ELSE LET name == Head(flagOrder)
           rest == userFlags_NoOverrideSkip(cmd, in, baseOverrideUsed, Tail(flagOrder))
       IN  IF IsAbsentFlagValue(in.Flags[name]) THEN rest
           ELSE IF name \notin DOMAIN cmd.Flags THEN rest
           ELSE expandFlag(cmd.Flags[name], in.Flags) \o rest

\* lines 158-176: the loop over input.Flags, visiting the names in flagOrder
RECURSIVE userFlags(_, _, _, _)
userFlags(cmd, in, baseOverrideUsed, flagOrder) ==
  IF flagOrder = <<>> THEN <<>>
  ELSE LET name == Head(flagOrder)
           rest == userFlags(cmd, in, baseOverrideUsed, Tail(flagOrder))
       IN  IF IsAbsentFlagValue(in.Flags[name]) THEN rest
           ELSE IF name = baseOverrideUsed THEN rest
           ELSE IF name \notin DOMAIN cmd.Flags THEN rest
           ELSE expandFlag(cmd.Flags[name], in.Flags) \o rest

\* the three orders in which one buildSingleCommand call visits its maps
Orders(cmd, in) ==
  [ov : Perms(DOMAIN cmd.BaseOverrides),
   arg : Perms(DOMAIN cmd.Args),
   flag : Perms(DOMAIN in.Flags)]

\* buildSingleCommand with the Extra tokens appended before the flags
buildSingleCommand_ExtraBeforeFlags(vals, binary, cmd, in, order) ==
  LET baseOverrideUsed == baseOverride(cmd, in, order.ov)
      base == IF baseOverrideUsed # "" THEN cmd.BaseOverrides[baseOverrideUsed]
              ELSE cmd.Base
      rendered == renderArgs(vals, cmd, in, order.arg, <<binary>> \o base)
  IN  IF rendered.err # NoErr THEN rendered
      ELSE Ok(versionSuffix(cmd, in, rendered.tokens)
              \o in.Extra
              \o cmd.DefaultFlags
              \o userFlags(cmd, in, baseOverrideUsed, order.flag))

buildSingleCommand(vals, binary, cmd, in, order) ==
  LET baseOverrideUsed == baseOverride(cmd, in, order.ov)
      base == IF baseOverrideUsed # "" THEN cmd.BaseOverrides[baseOverrideUsed]
              ELSE cmd.Base
      rendered == renderArgs(vals, cmd, in, order.arg, <<binary>> \o base)
  IN  IF rendered.err # NoErr THEN rendered
      ELSE Ok(versionSuffix(cmd, in, rendered.tokens)
              \o cmd.DefaultFlags
              \o userFlags(cmd, in, baseOverrideUsed, order.flag)
              \o in.Extra)

\* the orders one BuildCommand call may visit its maps in; a call that fails
\* before buildSingleCommand visits none
CallOrders(defs, managerName, operation, in) ==
  IF managerName \in DOMAIN defs /\ operation \in DOMAIN defs[managerName].Commands
  THEN Orders(defs[managerName].Commands[operation], in)
  ELSE {[ov |-> <<>>, arg |-> <<>>, flag |-> <<>>]}

\* BuildCommand that builds with whatever it resolved: no unknown-manager
\* and no unsupported-operation check of its own
BuildCommand_Unchecked(defs, vals, managerName, operation, in, order) ==
  IF managerName \notin DOMAIN defs \/ operation \notin DOMAIN defs[managerName].Commands
  THEN Fail(ErrUnsupportedOperation)
  ELSE buildSingleCommand(vals, defs[managerName].Binary,
                          defs[managerName].Commands[operation], in, order)

BuildCommand(defs, vals, managerName, operation, in, order) ==
  IF managerName \notin DOMAIN defs THEN Fail(ErrUnknownManager(managerName))
  ELSE IF operation \notin DOMAIN defs[managerName].Commands
       THEN Fail(ErrUnsupportedOperation)
  ELSE buildSingleCommand(vals, defs[managerName].Binary,
                          defs[managerName].Commands[operation], in, order)

\* lines 77-83: the loop over cmd.Then from its i-th entry on, appending to
\* result; orders[i + 1] is the order the i-th entry's build visits its maps in
RECURSIVE buildThen(_, _, _, _, _, _, _)
buildThen(vals, binary, cmd, in, orders, i, result) ==
  IF i > Len(cmd.Then) THEN OkChain(result)
  ELSE LET nextCmd == buildSingleCommand(vals, binary, cmd.Then[i], in, orders[i + 1])
       IN  IF nextCmd.err # NoErr THEN FailChain(nextCmd.err)
           ELSE buildThen(vals, binary, cmd, in, orders, i + 1,
                          Append(result, nextCmd.tokens))

\* buildCommandChain that leaves the first command out of the chain
buildCommandChain_WithoutFirst(vals, binary, cmd, in, orders) ==
  LET first == buildSingleCommand(vals, binary, cmd, in, orders[1])
  IN  IF first.err # NoErr THEN FailChain(first.err)
      ELSE buildThen(vals, binary, cmd, in, orders, 1, <<>>)

buildCommandChain(vals, binary, cmd, in, orders) ==
  LET first == buildSingleCommand(vals, binary, cmd, in, orders[1])
  IN  IF first.err # NoErr THEN FailChain(first.err)
      ELSE buildThen(vals, binary, cmd, in, orders, 1, <<first.tokens>>)

\* the orders the builds of cmd.Then, from its i-th entry on, may visit their maps in
RECURSIVE ThenOrders(_, _, _)
ThenOrders(cmd, in, i) ==
  IF i > Len(cmd.Then) THEN {<<>>}
  ELSE {<<o>> \o rest : o \in Orders(cmd.Then[i], in),
                        rest \in ThenOrders(cmd, in, i + 1)}

\* one order for the command and one for each entry of its `then`
ChainOrders(defs, managerName, operation, in) ==
  IF managerName \in DOMAIN defs /\ operation \in DOMAIN defs[managerName].Commands
  THEN LET cmd == defs[managerName].Commands[operation]
       IN  {<<o>> \o rest : o \in Orders(cmd, in), rest \in ThenOrders(cmd, in, 1)}
  ELSE {<<>>}

BuildCommands(defs, vals, managerName, operation, in, orders) ==
  IF managerName \notin DOMAIN defs THEN FailChain(ErrUnknownManager(managerName))
  ELSE IF operation \notin DOMAIN defs[managerName].Commands
       THEN FailChain(ErrUnsupportedOperation)
  ELSE buildCommandChain(vals, defs[managerName].Binary,
                         defs[managerName].Commands[operation], in, orders)

(***************************************************************************)
(* The requests of the model's callers.                                    *)
(***************************************************************************)
ArgNames    == {"package", "version", "url"}
ArgValues   == [package |-> {"lodash", "npm", "bad name"},
                version |-> {"1.0"},
                url |-> {"u"}]
FlagNames   == {"frozen", "clean", "dev"}
FlagValues  == {BoolV(TRUE), BoolV(FALSE)}
ExtraArgs   == <<"--", "-v", "-x">>

\* the maps with keys K, each key k mapped into vals(k)
ArgMaps == UNION {{f \in [K -> UNION {ArgValues[k] : k \in ArgNames}] :
                     \A k \in K : f[k] \in ArgValues[k]} : K \in SUBSET ArgNames}
FlagMaps == UNION {[K -> FlagValues] :
                     K \in {S \in SUBSET FlagNames : Cardinality(S) <= MaxFlags}}

Inputs == {CommandInput(a, f, e) :
             a \in ArgMaps, f \in FlagMaps, e \in {SubSeq(ExtraArgs, 1, n) : n \in 0..MaxExtra}}

EmptyInput == CommandInput(EmptyMap, EmptyMap, <<>>)

\* `last` before any call: kind "idle" between requests, "none" within one
NoCall(kind) == [kind |-> kind, manager |-> "", operation |-> "",
                 tokens |-> <<>>, chain |-> <<>>, isNil |-> TRUE, err |-> NoErr]

\* GenericManager: no manager built yet, no operation run yet
NoReturn == [op |-> "", hasResult |-> FALSE, command |-> <<>>, exitCode |-> 0,
             stdout |-> <<>>, path |-> <<>>, err |-> NoErr]

\* NewPolicyRunner(inner) without options: no policy, PolicyEnforce, no handler
NoPolicies == [policies |-> <<>>, mode |-> "enforce", handler |-> FALSE]

\* no Run / RunWithContext call made yet
NoPolicyCall == [kind |-> "", Manager |-> "", Operation |-> "", Packages |-> <<>>,
                 WorkingDir |-> "", Command |-> <<>>]

\* no ExtractPath / ValidatePackageName call made yet
NoExtraction == [called |-> FALSE, output |-> <<>>, extract |-> NilExtract,
                 pkg |-> <<>>, result |-> <<>>, err |-> NoErr]
NoValidation == [called |-> FALSE, validatorName |-> "", name |-> "", err |-> NoErr]

\* DetectOptions, its zero value
DetectOptions == [RequireCLI |-> FALSE, OnConflict |-> "ConflictError",
                  SearchParents |-> FALSE, Manager |-> ""]

\* `detection` before any call: the directory's files, the options and what
\* exec.LookPath finds, then the manager or the error returned
NoDetection == [called |-> FALSE, files |-> {}, readable |-> TRUE,
                opts |-> DetectOptions, onPath |-> TRUE,
                manager |-> "", isNil |-> TRUE, dir |-> "",
                err |-> NoErr, errFiles |-> <<>>]

tvars == <<definitions, validators, input, last>>
mvars == <<mgr, ran, ret>>
pvars == <<pr, call, checks, handled, innerRuns>>
fvars == <<extraction, validation>>
dvars == <<detector, detection>>
vars == <<definitions, validators, input, last, mgr, ran, ret,
          pr, call, checks, handled, innerRuns, extraction, validation,
          detector, detection, mdir>>

\* NewTranslator
Init ==
  /\ definitions = EmptyMap
  /\ validators = EmptyMap
  /\ input = EmptyInput
  /\ last = NoCall("idle")
  /\ mgr = ""
  /\ ran = <<>>
  /\ ret = NoReturn
  /\ pr = NoPolicies
  /\ call = NoPolicyCall
  /\ checks = <<>>
  /\ handled = <<>>
  /\ innerRuns = <<>>
  /\ extraction = NoExtraction
  /\ validation = NoValidation
  /\ detector = <<>>
  /\ detection = NoDetection
  /\ mdir = ""

\* Translator.Register
Register(def) ==
  /\ definitions' = (def.Name :> def) @@ definitions
  /\ last' = IF last.kind = "idle" THEN last ELSE NoCall("none")
  /\ UNCHANGED <<validators, input, mgr, ran, ret>>
  /\ UNCHANGED <<pvars, fvars, dvars, mdir>>

\* Translator.RegisterValidator
RegisterValidator(name, v) ==
  /\ validators' = (name :> v) @@ validators
  /\ last' = IF last.kind = "idle" THEN last ELSE NoCall("none")
  /\ UNCHANGED <<definitions, input, mgr, ran, ret>>
  /\ UNCHANGED <<pvars, fvars, dvars, mdir>>

\* a caller builds the CommandInput of its next request
NewRequest(in) ==
  /\ last.kind = "idle"
  /\ input' = in
  /\ last' = NoCall("none")
  /\ UNCHANGED <<definitions, validators, mgr, ran, ret>>
  /\ UNCHANGED <<pvars, fvars, dvars, mdir>>

\* the caller drops the CommandInput
EndRequest ==
  /\ last.kind # "idle"
  /\ input' = EmptyInput
  /\ last' = NoCall("idle")
  /\ UNCHANGED <<definitions, validators, mgr, ran, ret>>
  /\ UNCHANGED <<pvars, fvars, dvars, mdir>>

\* a BuildCommand that takes the Extra tokens out of the caller's input
CallBuildCommand_ConsumesExtra(managerName, operation) ==
  /\ last.kind # "idle"
  /\ \E r \in {BuildCommand(definitions, validators, managerName, operation,
                             input, order) :
                  order \in CallOrders(definitions, managerName, operation, input)} :
           last' = [kind |-> "BuildCommand", manager |-> managerName,
                    operation |-> operation, tokens |-> r.tokens, chain |-> <<>>,
                    isNil |-> r.isNil, err |-> r.err]
  /\ input' = [input EXCEPT !.Extra = <<>>]
  /\ UNCHANGED <<definitions, validators, mgr, ran, ret>>
  /\ UNCHANGED <<pvars, fvars, dvars, mdir>>

\* a call of Translator.BuildCommand with the request's input
CallBuildCommand(managerName, operation) ==
  /\ last.kind # "idle"
  /\ \E r \in {BuildCommand(definitions, validators, managerName, operation,
                             input, order) :
                  order \in CallOrders(definitions, managerName, operation, input)} :
           last' = [kind |-> "BuildCommand", manager |-> managerName,
                    operation |-> operation, tokens |-> r.tokens, chain |-> <<>>,
                    isNil |-> r.isNil, err |-> r.err]
  /\ UNCHANGED <<definitions, validators, input, mgr, ran, ret>>
  /\ UNCHANGED <<pvars, fvars, dvars, mdir>>

\* a call of Translator.BuildCommands with the request's input
CallBuildCommands(managerName, operation) ==
  /\ last.kind # "idle"
  /\ \E r \in {BuildCommands(definitions, validators, managerName, operation,
                              input, orders) :
                  orders \in ChainOrders(definitions, managerName, operation, input)} :
           last' = [kind |-> "BuildCommands", manager |-> managerName,
                    operation |-> operation, tokens |-> <<>>, chain |-> r.chain,
                    isNil |-> r.isNil, err |-> r.err]
  /\ UNCHANGED <<definitions, validators, input, mgr, ran, ret>>
  /\ UNCHANGED <<pvars, fvars, dvars, mdir>>

Next ==
  \/ \E def \in Defs : Register(def)
  \/ RegisterValidator("package_name", SixCharValidator)
  \/ \E in \in Inputs : NewRequest(in)
  \/ EndRequest
  \/ \E m \in ManagerNames, op \in Operations : CallBuildCommand(m, op)
  \/ \E m \in ManagerNames, op \in Operations : CallBuildCommands(m, op)

Spec == Init /\ [][Next]_vars

(***************************************************************************)
(* The Translator over a definition loaded from YAML, with flag values of  *)
(* every kind.                                                             *)
(***************************************************************************)
ExampleInputs ==
  {CommandInput(EmptyMap, f, <<>>) :
     f \in UNION {[K -> {BoolV(TRUE), BoolV(FALSE), StrV(""),
                          StrV("development"), NilV, OtherV}] :
                   K \in {S \in SUBSET {"frozen", "workspace", "group",
                                        "group_name"} :
                           Cardinality(S) <= MaxFlags + 1}}}

LoadedNext ==
  \/ Register(ExampleDef)
  \/ \E in \in ExampleInputs : NewRequest(in)
  \/ EndRequest
  \/ CallBuildCommand("example", "install")

SpecLoaded == Init /\ [][LoadedNext]_vars

(***************************************************************************)
(* Output extractor (extractor.go).  The strings the extractor works on    *)
(* are sequences of characters.                                            *)
(***************************************************************************)
\* unicode.IsSpace, over the characters of the model's texts
IsSpace(c) == c \in {" ", "\n", "\t", "\r"}

\* strings.TrimSpace
RECURSIVE TrimLeft(_)
TrimLeft(str) ==
  IF str # <<>> /\ IsSpace(Head(str)) THEN TrimLeft(Tail(str)) ELSE str
RECURSIVE TrimRight(_)
TrimRight(str) ==
  IF str # <<>> /\ IsSpace(str[Len(str)])
  THEN TrimRight(SubSeq(str, 1, Len(str) - 1))
  ELSE str
TrimSpace(str) == TrimRight(TrimLeft(str))

\* strings.HasPrefix, strings.TrimPrefix
HasPrefix(str, prefix) ==
  Len(str) >= Len(prefix) /\ SubSeq(str, 1, Len(prefix)) = prefix
TrimPrefix(str, prefix) ==
  IF HasPrefix(str, prefix) THEN SubSeq(str, Len(prefix) + 1, Len(str)) ELSE str

\* strings.Split(str, sep) for a one-character sep: the pieces between the
\* occurrences of sep
Split(str, sep) ==
  LET at == {i \in 1..Len(str) : str[i] = sep}
      nth(k) == CHOOSE i \in at : Cardinality({j \in at : j < i}) = k - 1
  IN  [k \in 1..(Cardinality(at) + 1) |->
         SubSeq(str,
                IF k = 1 THEN 1 ELSE nth(k - 1) + 1,
                IF k = Cardinality(at) + 1 THEN Len(str) ELSE nth(k) - 1)]

\* strings.Join
RECURSIVE Join(_, _)
Join(elems, sep) ==
  IF elems = <<>> THEN <<>>
  ELSE IF Len(elems) = 1 THEN elems[1]
  ELSE elems[1] \o <<sep>> \o Join(Tail(elems), sep)

\* strings.ReplaceAll for a non-empty old
RECURSIVE ReplaceAll(_, _, _)
ReplaceAll(str, old, new) ==
  IF str = <<>> THEN <<>>
  ELSE IF HasPrefix(str, old)
       THEN new \o ReplaceAll(SubSeq(str, Len(old) + 1, Len(str)), old, new)
  ELSE <<Head(str)>> \o ReplaceAll(Tail(str), old, new)

\* filepath.Clean on a slash-separated path: the elements that remain of
\* elems from index i on, on top of the elements kept so far
RECURSIVE cleanElems(_, _, _, _)
cleanElems(rooted, elems, i, kept) ==
  IF i > Len(elems) THEN kept
  ELSE IF elems[i] = <<>> \/ elems[i] = <<".">>
       THEN cleanElems(rooted, elems, i + 1, kept)
  ELSE IF elems[i] = <<".", ".">>
       THEN IF kept # <<>> /\ kept[Len(kept)] # <<".", ".">>
            THEN cleanElems(rooted, elems, i + 1, SubSeq(kept, 1, Len(kept) - 1))
            ELSE IF rooted THEN cleanElems(rooted, elems, i + 1, kept)
            ELSE cleanElems(rooted, elems, i + 1, Append(kept, elems[i]))
  ELSE cleanElems(rooted, elems, i + 1, Append(kept, elems[i]))

Clean(path) ==
  IF path = <<>> THEN <<".">>
  ELSE LET rooted == path[1] = "/"
           body == Join(cleanElems(rooted, Split(path, "/"), 1, <<>>), "/")
           out == (IF rooted THEN <<"/">> ELSE <<>>) \o body
       IN  IF out = <<>> THEN <<".">> ELSE out

\* index of the last "/" of path; 0 if none
RECURSIVE LastSlash(_, _)
LastSlash(path, i) ==
  IF i = 0 THEN 0 ELSE IF path[i] = "/" THEN i ELSE LastSlash(path, i - 1)

\* filepath.Dir
Dir(path) == Clean(SubSeq(path, 1, LastSlash(path, Len(path))))

\* a (string, error) pair
Extracted(result) == [result |-> result, err |-> NoErr]
ExtractError(msg, detail) ==
  [result |-> <<>>, err |-> [kind |-> msg, name |-> detail, reason |-> ""]]

\* JSON values, as json.Unmarshal into map[string]any yields them: a string,
\* a number, an array of values, an object (a map from field names)
JString(str) == [t |-> "string", s |-> str, items |-> <<>>, fields |-> EmptyMap]
JNumber == [t |-> "number", s |-> <<>>, items |-> <<>>, fields |-> EmptyMap]
JArray(items) == [t |-> "array", s |-> <<>>, items |-> items, fields |-> EmptyMap]
JObject(fields) == [t |-> "object", s |-> <<>>, items |-> <<>>, fields |-> fields]

\* the JSON objects the commands of the model print
PackageElem(name, path) ==
  JObject(("name" :> JString(Chars(name))) @@ ("path" :> path))
JsonDocs ==
  { JObject("Dir" :> JString(Chars("/x/y/f"))),
    JObject("Dir" :> JNumber),
    JObject("name" :> JString(Chars("npm"))),
    JObject("pkgs" :> JArray(<< PackageElem("npm", JString(Chars("/n/f"))),
                                JNumber,
                                PackageElem("lodash", JString(Chars("/x/y/f"))),
                                PackageElem("lodash", JString(Chars("/n/f"))) >>)),
    JObject("pkgs" :> JArray(<< PackageElem("lodash", JNumber),
                                PackageElem("lodash", JString(Chars("/x/y/f"))) >>)),
    JObject("pkgs" :> JArray(<< PackageElem("npm", JString(<<" ">> \o Chars("/n/f")
                                                             \o <<" ">>)) >>)),
    JObject("pkgs" :> JString(Chars("f"))) }

\* the text of a JSON value, fields in the order keys, as a command prints it
RECURSIVE Marshal(_)
RECURSIVE MarshalItems(_)
RECURSIVE MarshalFields(_, _)
Marshal(v) ==
  IF v.t = "string" THEN <<"\"">> \o v.s \o <<"\"">>
  ELSE IF v.t = "number" THEN <<"1">>
  ELSE IF v.t = "array" THEN <<"[">> \o MarshalItems(v.items) \o <<"]">>
  ELSE <<"{">> \o MarshalFields(v.fields, DOMAIN v.fields) \o <<"}">>
MarshalItems(items) ==
  IF items = <<>> THEN <<>>
  ELSE IF Len(items) = 1 THEN Marshal(items[1])
  ELSE Marshal(items[1]) \o <<",">> \o MarshalItems(Tail(items))
MarshalFields(fields, keys) ==
  IF keys = {} THEN <<>>
  ELSE LET k == CHOOSE x \in keys : TRUE
           one == <<"\"">> \o Chars(k) \o <<"\"", ":">> \o Marshal(fields[k])
       IN  IF keys = {k} THEN one
           ELSE one \o <<",">> \o MarshalFields(fields, keys \ {k})

\* json.Unmarshal([]byte(output), &data): the object whose text output is,
\* white space around it aside; a text that is none of the model's JSON
\* objects fails to parse
Unmarshal(output) ==
  IF \E d \in JsonDocs : Marshal(d) = TrimSpace(output)
  THEN [ok |-> TRUE,
        data |-> (CHOOSE d \in JsonDocs : Marshal(d) = TrimSpace(output)).fields]
  ELSE [ok |-> FALSE, data |-> EmptyMap]

extractJSON(output, field) ==
  IF field = "" THEN ExtractError("json extraction requires field name", "")
  ELSE LET parsed == Unmarshal(output)
       IN  IF ~parsed.ok THEN ExtractError("failed to parse JSON", "")
           ELSE IF field \notin DOMAIN parsed.data
                THEN ExtractError("field not found in JSON", field)
           ELSE IF parsed.data[field].t # "string"
                THEN ExtractError("field is not a string", field)
           ELSE Extracted(parsed.data[field].s)

\* the loop over the lines from index i on
RECURSIVE firstLineWithPrefix(_, _, _)
firstLineWithPrefix(lines, prefix, i) ==
  IF i > Len(lines) THEN ExtractError("no line found with prefix", "")
  ELSE IF HasPrefix(lines[i], prefix)
       THEN Extracted(TrimSpace(TrimPrefix(lines[i], prefix)))
  ELSE firstLineWithPrefix(lines, prefix, i + 1)

extractLinePrefix(output, prefix) ==
  IF prefix = <<>> THEN ExtractError("line_prefix extraction requires prefix", "")
  ELSE firstLineWithPrefix(Split(output, "\n"), prefix, 1)

\* regexp.Compile, for the patterns of the model: a literal followed by \S+,
\* with or without a capture group around the \S+; "(" does not compile
Compile(pattern) ==
  CASE pattern = Chars("dir=(\\S+)") ->
         [ok |-> TRUE, literal |-> Chars("dir="), groups |-> 1]
    [] pattern = Chars("dir=\\S+") ->
         [ok |-> TRUE, literal |-> Chars("dir="), groups |-> 0]
    [] pattern = Chars("(") -> [ok |-> FALSE, literal |-> <<>>, groups |-> 0]

\* the longest run of non-space characters str begins with
NonSpaceRun(str) ==
  LET spaces == {i \in 1..Len(str) : IsSpace(str[i])}
  IN  IF spaces = {} THEN str
      ELSE SubSeq(str, 1, (CHOOSE i \in spaces : \A j \in spaces : i <= j) - 1)

\* re.FindStringSubmatch(output): the leftmost match of literal\S+, as the
\* match followed by its capture groups; <<>> if there is none
FindStringSubmatch(re, output) ==
  LET rest(i) == SubSeq(output, i, Len(output))
      run(i) == NonSpaceRun(TrimPrefix(rest(i), re.literal))
      at == {i \in 1..Len(output) : HasPrefix(rest(i), re.literal) /\ run(i) # <<>>}
  IN  IF at = {} THEN <<>>
      ELSE LET first == CHOOSE i \in at : \A j \in at : i <= j
           IN  IF re.groups = 1 THEN <<re.literal \o run(first), run(first)>>
               ELSE <<re.literal \o run(first)>>

extractRegex(output, pattern) ==
  IF pattern = <<>> THEN ExtractError("regex extraction requires pattern", "")
  ELSE LET re == Compile(pattern)
       IN  IF ~re.ok THEN ExtractError("invalid regex pattern", "")
           ELSE LET matches == FindStringSubmatch(re, output)
                IN  IF Len(matches) < 2
                    THEN ExtractError("pattern did not match or no capture group found", "")
                    ELSE Extracted(TrimSpace(matches[2]))

\* extractTemplate that substitutes an empty package name too
extractTemplate_NoPackageCheck(pattern, pkg) ==
  IF pattern = <<>> THEN ExtractError("template extraction requires pattern", "")
  ELSE Extracted(ReplaceAll(pattern, Chars("{package}"), pkg))

extractTemplate(pattern, pkg) ==
  IF pattern = <<>> THEN ExtractError("template extraction requires pattern", "")
  ELSE IF pkg = <<>> THEN ExtractError("template extraction requires package name", "")
  ELSE Extracted(ReplaceAll(pattern, Chars("{package}"), pkg))

\* the loop over the array that goes on to the next element when the
\* extract-field of a matching one is not a string
RECURSIVE firstMatchingElement_SkipsNonString(_, _, _, _, _)
firstMatchingElement_SkipsNonString(arr, matchField, extractField, pkg, i) ==
  IF i > Len(arr) THEN ExtractError("no element found with", matchField)
  ELSE LET item == arr[i]
       IN  IF \/ item.t # "object"
              \/ matchField \notin DOMAIN item.fields
              \/ item.fields[matchField].t # "string"
              \/ item.fields[matchField].s # pkg
              \/ extractField \notin DOMAIN item.fields
              \/ item.fields[extractField].t # "string"
           THEN firstMatchingElement_SkipsNonString(arr, matchField, extractField,
                                                    pkg, i + 1)
           ELSE Extracted(TrimSpace(item.fields[extractField].s))

\* the loop over the array from index i on
RECURSIVE firstMatchingElement(_, _, _, _, _)
firstMatchingElement(arr, matchField, extractField, pkg, i) ==
  IF i > Len(arr) THEN ExtractError("no element found with", matchField)
  ELSE LET item == arr[i]
       IN  IF item.t # "object"
           THEN firstMatchingElement(arr, matchField, extractField, pkg, i + 1)
           ELSE IF \/ matchField \notin DOMAIN item.fields
                   \/ item.fields[matchField].t # "string"
                   \/ item.fields[matchField].s # pkg
                THEN firstMatchingElement(arr, matchField, extractField, pkg, i + 1)
           ELSE IF \/ extractField \notin DOMAIN item.fields
                   \/ item.fields[extractField].t # "string"
                THEN ExtractError("field is not a string in matched element", extractField)
           ELSE Extracted(TrimSpace(item.fields[extractField].s))

extractJSONArray(output, arrayField, matchField, extractField, pkg) ==
  IF arrayField = "" \/ matchField = "" \/ extractField = ""
  THEN ExtractError("json_array extraction requires array_field, match_field, and extract_field", "")
  ELSE LET parsed == Unmarshal(output)
       IN  IF ~parsed.ok THEN ExtractError("failed to parse JSON", "")
           ELSE IF \/ arrayField \notin DOMAIN parsed.data
                   \/ parsed.data[arrayField].t # "array"
                THEN ExtractError("field is not an array", arrayField)
           ELSE firstMatchingElement(parsed.data[arrayField].items, matchField,
                                     extractField, pkg, 1)

\* the default case of the switch that falls back to the raw output
unknownType_FallsBackToRaw(output, extract) == Extracted(TrimSpace(output))

\* the default case of the switch on extract.Type
unknownType(output, extract) == ExtractError("unknown extract type", extract.Type)

ExtractPath(output, extract, pkg) ==
  IF extract.isNil \/ extract.Type = "" \/ extract.Type = "raw"
  THEN Extracted(TrimSpace(output))
  ELSE LET r == CASE extract.Type = "json" -> extractJSON(output, extract.Field)
                  [] extract.Type = "line_prefix" ->
                       extractLinePrefix(output, extract.Prefix)
                  [] extract.Type = "regex" -> extractRegex(output, extract.Pattern)
                  [] extract.Type = "json_array" ->
                       extractJSONArray(output, extract.ArrayField, extract.MatchField,
                                        extract.ExtractField, pkg)
                  [] extract.Type = "template" -> extractTemplate(extract.Pattern, pkg)
                  [] OTHER -> unknownType(output, extract)
       IN  IF r.err # NoErr THEN ExtractError(r.err.kind, r.err.name)
           ELSE IF extract.StripFilename THEN Extracted(Dir(r.result))
           ELSE r

(***************************************************************************)
(* GenericManager over a Runner (generic_manager.go, unnamed/part_002).    *)
(***************************************************************************)
\* the embedded gomod definition, as the tests show it: `add` is `go get`
\* followed by `go mod tidy`
GomodDef ==
  [Name |-> "gomod", Binary |-> "go",
   Commands |->
     ("install" :> [Command EXCEPT !.Base = <<"mod", "download">>])
     @@
     ("add" :>
        [Command EXCEPT
           !.Base = <<"get">>,
           !.Args = ("package" :> [Arg EXCEPT !.Position = 0, !.Required = TRUE]),
           !.Then = << [Command EXCEPT !.Base = <<"mod", "tidy">>] >>])
     @@
     ("remove" :>
        [Command EXCEPT
           !.Base = <<"get">>,
           !.Args = ("package" :> [Arg EXCEPT !.Position = 0, !.Required = TRUE,
                                              !.FixedSuffix = "@none"])])
     @@
     ("list" :> [Command EXCEPT !.Base = <<"list", "-m", "-json", "all">>])
     @@
     ("update" :>
        [Command EXCEPT
           !.Base = <<"get", "-u">>,
           !.Args = ("package" :> [Arg EXCEPT !.Position = 0])])
     @@
     ("path" :>
        [Command EXCEPT
           !.Base = <<"list", "-m", "-json">>,
           !.Args = ("package" :> [Arg EXCEPT !.Position = 0, !.Required = TRUE]),
           !.Extract = [Extract EXCEPT !.Type = "json", !.Field = "Dir"]])]

\* the definitions a Detector registers before it builds managers
ManagerDefs == {NpmDef, GomodDef}
Registry(defs) == [n \in {d.Name : d \in defs} |-> CHOOSE d \in defs : d.Name = n]

\* the package names and workspaces the manager's callers pass
Packages == {"lodash", "npm", ""}
Workspaces == {"", "w"}

\* what Runner.Run may do with a command: return a Result with exit code 0,
\* a Result with another exit code, or an error
RunnerOutcomes == {"ok", "exit1", "error"}
ErrRun == [kind |-> "runner error", name |-> "", reason |-> ""]

\* the (*Result, error) the Runner returns for cmd
RunResult(op, cmd, outcome) ==
  IF outcome = "error"
  THEN [NoReturn EXCEPT !.op = op, !.err = ErrRun]
  ELSE [NoReturn EXCEPT !.op = op, !.hasResult = TRUE, !.command = cmd,
                        !.exitCode = IF outcome = "ok" THEN 0 ELSE 1]

\* BuildAndRun that runs the command in the current directory of the process
BuildAndRun_InCurrentDir(op, operation, in) ==
  /\ input' = in
  /\ \E r \in {BuildCommand(definitions, validators, mgr, operation, in, order) :
                 order \in CallOrders(definitions, mgr, operation, in)} :
       IF r.err # NoErr
       THEN /\ ran' = <<>>
            /\ ret' = [NoReturn EXCEPT !.op = op, !.err = r.err]
       ELSE \E outcome \in RunnerOutcomes :
              /\ ran' = <<[dir |-> ".", args |-> r.tokens]>>
              /\ ret' = RunResult(op, r.tokens, outcome)

\* the body every operation shares: BuildCommand on the CommandInput the
\* operation built, then runner.Run
BuildAndRun(op, operation, in) ==
  /\ input' = in
  /\ \E r \in {BuildCommand(definitions, validators, mgr, operation, in, order) :
                 order \in CallOrders(definitions, mgr, operation, in)} :
       IF r.err # NoErr
       THEN /\ ran' = <<>>
            /\ ret' = [NoReturn EXCEPT !.op = op, !.err = r.err]
       ELSE \E outcome \in RunnerOutcomes :
              /\ ran' = <<[dir |-> mdir, args |-> r.tokens]>>
              /\ ret' = RunResult(op, r.tokens, outcome)

\* Detector.buildManager: a manager for a registered definition, its Runner
\* not yet used
NewManager(name, dir) ==
  /\ name \in DOMAIN definitions
  /\ mgr' = name
  /\ mdir' = dir
  /\ ran' = <<>>
  /\ ret' = NoReturn
  /\ UNCHANGED tvars
  /\ UNCHANGED <<pvars, fvars, dvars>>

Install(opts) ==
  /\ mgr # ""
  /\ BuildAndRun("Install", "install",
       CommandInput(EmptyMap,
                    ("frozen" :> BoolV(opts.Frozen)) @@ ("clean" :> BoolV(opts.Clean))
                    @@ ("production" :> BoolV(opts.Production)),
                    <<>>))
  /\ UNCHANGED <<mgr, definitions, validators, last>>
  /\ UNCHANGED <<pvars, fvars, dvars, mdir>>

Add(pkg, opts) ==
  /\ mgr # ""
  /\ BuildAndRun("Add", "add",
       CommandInput("package" :> pkg,
                    ("dev" :> BoolV(opts.Dev)) @@ ("optional" :> BoolV(opts.Optional))
                    @@ ("exact" :> BoolV(opts.Exact))
                    @@ ("workspace" :> StrV(opts.Workspace)),
                    <<>>))
  /\ UNCHANGED <<mgr, definitions, validators, last>>
  /\ UNCHANGED <<pvars, fvars, dvars, mdir>>

Remove(pkg) ==
  /\ mgr # ""
  /\ BuildAndRun("Remove", "remove", CommandInput("package" :> pkg, EmptyMap, <<>>))
  /\ UNCHANGED <<mgr, definitions, validators, last>>
  /\ UNCHANGED <<pvars, fvars, dvars, mdir>>

List ==
  /\ mgr # ""
  /\ BuildAndRun("List", "list", EmptyInput)
  /\ UNCHANGED <<mgr, definitions, validators, last>>
  /\ UNCHANGED <<pvars, fvars, dvars, mdir>>

Outdated ==
  /\ mgr # ""
  /\ BuildAndRun("Outdated", "outdated", EmptyInput)
  /\ UNCHANGED <<mgr, definitions, validators, last>>
  /\ UNCHANGED <<pvars, fvars, dvars, mdir>>

Update(pkg) ==
  /\ mgr # ""
  /\ BuildAndRun("Update", "update",
       CommandInput(IF pkg # "" THEN "package" :> pkg ELSE EmptyMap, EmptyMap, <<>>))
  /\ UNCHANGED <<mgr, definitions, validators, last>>
  /\ UNCHANGED <<pvars, fvars, dvars, mdir>>

Vendor ==
  /\ mgr # ""
  /\ BuildAndRun("Vendor", "vendor", EmptyInput)
  /\ UNCHANGED <<mgr, definitions, validators, last>>
  /\ UNCHANGED <<pvars, fvars, dvars, mdir>>

Resolve ==
  /\ mgr # ""
  /\ BuildAndRun("Resolve", "resolve", EmptyInput)
  /\ UNCHANGED <<mgr, definitions, validators, last>>
  /\ UNCHANGED <<pvars, fvars, dvars, mdir>>

\* what the commands of the model's managers may print
Stdouts == { Marshal(JObject("Dir" :> JString(Chars("/x/y/f")))) \o <<"\n">>,
             Marshal(JObject("Dir" :> JNumber)),
             Chars("oops"),
             <<>> }

\* pathReturn that drops the Result when the extraction fails
pathReturn_NilOnError(result, extracted) ==
  IF extracted.err # NoErr
  THEN [NoReturn EXCEPT !.op = result.op, !.err = extracted.err]
  ELSE [result EXCEPT !.path = extracted.result]

\* lines 205-213: the (*PathResult, error) Path returns for the Runner's
\* result and what ExtractPath returned; hasResult tells a non-nil
\* PathResult, whose Result is the Runner's
pathReturn(result, extracted) ==
  IF extracted.err # NoErr
  THEN [result EXCEPT !.err = extracted.err]
  ELSE [result EXCEPT !.path = extracted.result]

Path(pkg) ==
  /\ mgr # ""
  /\ input' = CommandInput("package" :> pkg, EmptyMap, <<>>)
  /\ \E r \in {BuildCommand(definitions, validators, mgr, "path", input', order) :
                 order \in CallOrders(definitions, mgr, "path", input')} :
       IF r.err # NoErr
       THEN /\ ran' = <<>>
            /\ ret' = [NoReturn EXCEPT !.op = "Path", !.err = r.err]
       ELSE /\ ran' = <<[dir |-> mdir, args |-> r.tokens]>>
            /\ \E outcome \in RunnerOutcomes, out \in Stdouts :
                 IF outcome = "error"
                 THEN ret' = RunResult("Path", r.tokens, outcome)
                 ELSE LET result == [RunResult("Path", r.tokens, outcome)
                                       EXCEPT !.stdout = out]
                          extract == IF "path" \in DOMAIN definitions[mgr].Commands
                                     THEN definitions[mgr].Commands["path"].Extract
                                     ELSE NilExtract
                      IN  ret' = pathReturn(result, ExtractPath(out, extract, Chars(pkg)))
  /\ UNCHANGED <<mgr, definitions, validators, last>>
  /\ UNCHANGED <<pvars, fvars, dvars, mdir>>

\* the directories managers are built for
ManagerDirs == {"/p", "/q"}

InstallOptions == [Frozen : BOOLEAN, Clean : BOOLEAN, Production : BOOLEAN]
AddOptions == [Dev : BOOLEAN, Optional : BOOLEAN, Exact : BOOLEAN, Workspace : Workspaces]

\* a Detector with ManagerDefs registered and no manager built yet
ManagerInit ==
  /\ definitions = Registry(ManagerDefs)
  /\ validators = EmptyMap
  /\ input = EmptyInput
  /\ last = NoCall("idle")
  /\ mgr = ""
  /\ ran = <<>>
  /\ ret = NoReturn
  /\ pr = NoPolicies
  /\ call = NoPolicyCall
  /\ checks = <<>>
  /\ handled = <<>>
  /\ innerRuns = <<>>
  /\ extraction = NoExtraction
  /\ validation = NoValidation
  /\ detector = <<>>
  /\ detection = NoDetection
  /\ mdir = ""

ManagerNext ==
  \/ \E name \in {d.Name : d \in ManagerDefs}, dir \in ManagerDirs : NewManager(name, dir)
  \/ \E opts \in InstallOptions : Install(opts)
  \/ \E pkg \in Packages, opts \in AddOptions : Add(pkg, opts)
  \/ \E pkg \in Packages : Remove(pkg)
  \/ List
  \/ Outdated
  \/ \E pkg \in Packages : Update(pkg)
  \/ Vendor
  \/ Resolve
  \/ \E pkg \in Packages : Path(pkg)

SpecManager == ManagerInit /\ [][ManagerNext]_vars

(***************************************************************************)
(* PolicyRunner over an inner Runner (policy.go).                          *)
(***************************************************************************)
\* largest number of policies registered with one PolicyRunner
MaxPolicies == 3

\* the errors PolicyRunner.Run returns (the Command field of
\* ErrPolicyViolation is the call's Command)
ErrPolicyCheck(policy) == [kind |-> "ErrPolicyCheck", name |-> policy, reason |-> ""]
ErrPolicyViolation(policy, reason) ==
  [kind |-> "ErrPolicyViolation", name |-> policy, reason |-> reason]

\* the Policy implementations: the three built-in ones and one whose Check
\* returns an error
AllowAllPolicy == [name |-> "allow-all", Reason |-> "", Blocked |-> EmptyMap]
DenyAllPolicy(reason) == [name |-> "deny-all", Reason |-> reason, Blocked |-> EmptyMap]
PackageBlocklistPolicy(blocked) ==
  [name |-> "package-blocklist", Reason |-> "", Blocked |-> blocked]
errorPolicy == [name |-> "error-policy", Reason |-> "", Blocked |-> EmptyMap]

\* the blocklist of the README's example
Blocklist == "event-stream" :> "compromised in 2018"

Policies == {AllowAllPolicy, DenyAllPolicy("testing"), DenyAllPolicy(""),
             PackageBlocklistPolicy(Blocklist), errorPolicy}
PolicyModes == {"enforce", "warn", "disabled"}

\* a (*PolicyResult, error) pair
PolicyResult(allowed, reason) == [isErr |-> FALSE, Allowed |-> allowed, Reason |-> reason]
PolicyError == [isErr |-> TRUE, Allowed |-> FALSE, Reason |-> ""]

\* PackageBlocklistPolicy.Check: the first blocked package of op.Packages
\* from index i on decides
RECURSIVE blocklistCheck(_, _, _)
blocklistCheck(blocked, packages, i) ==
  IF i > Len(packages) THEN PolicyResult(TRUE, "")
  ELSE IF packages[i] \in DOMAIN blocked
       THEN PolicyResult(FALSE, blocked[packages[i]])
  ELSE blocklistCheck(blocked, packages, i + 1)

\* policy.Check(ctx, op)
Check(policy, op) ==
  IF policy.name = "allow-all" THEN PolicyResult(TRUE, "")
  ELSE IF policy.name = "deny-all"
       THEN PolicyResult(FALSE, IF policy.Reason = ""
                                THEN "all operations denied by policy"
                                ELSE policy.Reason)
  ELSE IF policy.name = "package-blocklist"
       THEN blocklistCheck(policy.Blocked, op.Packages, 1)
  ELSE PolicyError

\* checkPolicies without the `!result.Allowed && pr.mode == PolicyEnforce`
\* return of lines 171-177: a denial does not end the loop
RECURSIVE checkPolicies_NeverBlocks(_, _, _, _, _)
checkPolicies_NeverBlocks(runner, op, i, cs, hs) ==
  IF i > Len(runner.policies) THEN [checks |-> cs, handled |-> hs, err |-> NoErr]
  ELSE LET policy == runner.policies[i]
           result == Check(policy, op)
           cs1 == Append(cs, [index |-> i, policy |-> policy.name, result |-> result])
           hs1 == IF runner.handler
                  THEN Append(hs, [policy |-> policy.name, result |-> result])
                  ELSE hs
       IN  IF result.isErr
           THEN [checks |-> cs1, handled |-> hs, err |-> ErrPolicyCheck(policy.name)]
           ELSE checkPolicies_NeverBlocks(runner, op, i + 1, cs1, hs1)

\* checkPolicies that takes a failed Check for an allowing result
RECURSIVE checkPolicies_IgnoresCheckError(_, _, _, _, _)
checkPolicies_IgnoresCheckError(runner, op, i, cs, hs) ==
  IF i > Len(runner.policies) THEN [checks |-> cs, handled |-> hs, err |-> NoErr]
  ELSE LET policy == runner.policies[i]
           result == Check(policy, op)
           cs1 == Append(cs, [index |-> i, policy |-> policy.name, result |-> result])
           hs1 == IF runner.handler /\ ~result.isErr
                  THEN Append(hs, [policy |-> policy.name, result |-> result])
                  ELSE hs
       IN  IF ~result.isErr /\ ~result.Allowed /\ runner.mode = "enforce"
           THEN [checks |-> cs1, handled |-> hs1,
                 err |-> ErrPolicyViolation(policy.name, result.Reason)]
           ELSE checkPolicies_IgnoresCheckError(runner, op, i + 1, cs1, hs1)

\* checkPolicies that calls the handler after the enforce-mode return, so
\* not for the policy whose denial ends the run
RECURSIVE checkPolicies_HandlerAfterDeny(_, _, _, _, _)
checkPolicies_HandlerAfterDeny(runner, op, i, cs, hs) ==
  IF i > Len(runner.policies) THEN [checks |-> cs, handled |-> hs, err |-> NoErr]
  ELSE LET policy == runner.policies[i]
           result == Check(policy, op)
           cs1 == Append(cs, [index |-> i, policy |-> policy.name, result |-> result])
           hs1 == IF runner.handler
                  THEN Append(hs, [policy |-> policy.name, result |-> result])
                  ELSE hs
       IN  IF result.isErr
           THEN [checks |-> cs1, handled |-> hs, err |-> ErrPolicyCheck(policy.name)]
           ELSE IF ~result.Allowed /\ runner.mode = "enforce"
                THEN [checks |-> cs1, handled |-> hs,
                      err |-> ErrPolicyViolation(policy.name, result.Reason)]
           ELSE checkPolicies_HandlerAfterDeny(runner, op, i + 1, cs1, hs1)

\* the loop over pr.policies from index i on (lines 161-178, 190-207):
\* cs and hs are the Check and OnPolicyResult calls made so far; err is the
\* error the loop returns with, NoErr if it runs to its end
RECURSIVE checkPolicies(_, _, _, _, _)
checkPolicies(runner, op, i, cs, hs) ==
  IF i > Len(runner.policies) THEN [checks |-> cs, handled |-> hs, err |-> NoErr]
  ELSE LET policy == runner.policies[i]
           result == Check(policy, op)
           cs1 == Append(cs, [index |-> i, policy |-> policy.name, result |-> result])
           hs1 == IF runner.handler
                  THEN Append(hs, [policy |-> policy.name, result |-> result])
                  ELSE hs
       IN  IF result.isErr
           THEN [checks |-> cs1, handled |-> hs, err |-> ErrPolicyCheck(policy.name)]
           ELSE IF ~result.Allowed /\ runner.mode = "enforce"
                THEN [checks |-> cs1, handled |-> hs1,
                      err |-> ErrPolicyViolation(policy.name, result.Reason)]
           ELSE checkPolicies(runner, op, i + 1, cs1, hs1)

\* runChecked without the `pr.mode == PolicyDisabled` passthrough of lines
\* 142-144 and 186-188
runChecked_NoPassthrough(kind, op) ==
  /\ call' = [op EXCEPT !.kind = kind]
  /\ LET r == checkPolicies(pr, op, 1, <<>>, <<>>)
     IN  /\ checks' = r.checks
         /\ handled' = r.handled
         /\ IF r.err # NoErr
            THEN /\ innerRuns' = <<>>
                 /\ ret' = [NoReturn EXCEPT !.op = kind, !.err = r.err]
            ELSE /\ innerRuns' = <<[dir |-> op.WorkingDir, args |-> op.Command]>>
                 /\ \E outcome \in RunnerOutcomes :
                      ret' = RunResult(kind, op.Command, outcome)
  /\ UNCHANGED <<pr, tvars, mgr, ran, fvars, dvars, mdir>>

\* the body Run and RunWithContext share once the PolicyOperation op is
\* there: the disabled passthrough, the policy loop, the inner run
runChecked(kind, op) ==
  /\ call' = [op EXCEPT !.kind = kind]
  /\ IF pr.mode = "disabled"
     THEN /\ checks' = <<>>
          /\ handled' = <<>>
          /\ innerRuns' = <<[dir |-> op.WorkingDir, args |-> op.Command]>>
          /\ \E outcome \in RunnerOutcomes : ret' = RunResult(kind, op.Command, outcome)
     ELSE LET r == checkPolicies(pr, op, 1, <<>>, <<>>)
          IN  /\ checks' = r.checks
              /\ handled' = r.handled
              /\ IF r.err # NoErr
                 THEN /\ innerRuns' = <<>>
                      /\ ret' = [NoReturn EXCEPT !.op = kind, !.err = r.err]
                 ELSE /\ innerRuns' = <<[dir |-> op.WorkingDir, args |-> op.Command]>>
                      /\ \E outcome \in RunnerOutcomes :
                           ret' = RunResult(kind, op.Command, outcome)
  /\ UNCHANGED <<pr, tvars, mgr, ran, fvars, dvars, mdir>>

\* the PolicyOperation Run builds from dir and args (lines 146-159)
RunOperation(dir, args) ==
  [kind |-> "Run",
   Manager |-> IF Len(args) > 0 THEN args[1] ELSE "",
   Operation |-> IF Len(args) > 1 THEN args[2] ELSE "",
   Packages |-> <<>>,
   WorkingDir |-> dir,
   Command |-> args]

\* NewPolicyRunner options, applied before the runner is used
WithPolicies(policies) ==
  /\ call = NoPolicyCall
  /\ Len(pr.policies) + Len(policies) <= MaxPolicies
  /\ pr' = [pr EXCEPT !.policies = pr.policies \o policies]
  /\ UNCHANGED <<call, checks, handled, innerRuns, tvars, mvars, fvars, dvars, mdir>>

WithPolicyMode(mode) ==
  /\ call = NoPolicyCall
  /\ pr' = [pr EXCEPT !.mode = mode]
  /\ UNCHANGED <<call, checks, handled, innerRuns, tvars, mvars, fvars, dvars, mdir>>

WithPolicyHandler ==
  /\ call = NoPolicyCall
  /\ pr' = [pr EXCEPT !.handler = TRUE]
  /\ UNCHANGED <<call, checks, handled, innerRuns, tvars, mvars, fvars, dvars, mdir>>

\* PolicyRunner.AddPolicy, on the constructed runner; what an earlier run
\* recorded is dropped
AddPolicy(p) ==
  /\ Len(pr.policies) < MaxPolicies
  /\ pr' = [pr EXCEPT !.policies = Append(pr.policies, p)]
  /\ call' = [NoPolicyCall EXCEPT !.kind = "constructed"]
  /\ checks' = <<>>
  /\ handled' = <<>>
  /\ innerRuns' = <<>>
  /\ ret' = NoReturn
  /\ UNCHANGED <<tvars, mgr, ran, fvars, dvars, mdir>>

\* PolicyRunner.Run
Run(dir, args) == runChecked("Run", RunOperation(dir, args))

\* PolicyRunner.RunWithContext
RunWithContext(op) == runChecked("RunWithContext", op)

\* the directories and argument vectors of the callers
Dirs == {"/tmp", "/path/to/project"}
Commands == {<<>>, <<"npm">>, <<"npm", "install">>,
             <<"npm", "install", "event-stream">>}

\* the PolicyOperations callers of RunWithContext build
PolicyOperations ==
  {[kind |-> "RunWithContext", Manager |-> "npm", Operation |-> "add",
    Packages |-> pkgs, WorkingDir |-> dir, Command |-> cmd] :
     pkgs \in {<<>>, <<"lodash">>, <<"lodash", "event-stream">>},
     dir \in {"/tmp"},
     cmd \in {<<"npm", "install">>, <<"npm", "install", "lodash", "event-stream">>}}

PolicyNext ==
  \/ \E ps \in {<<p>> : p \in Policies} \cup {<<p, q>> : p, q \in Policies} :
       WithPolicies(ps)
  \/ \E mode \in PolicyModes : WithPolicyMode(mode)
  \/ WithPolicyHandler
  \/ \E p \in Policies : AddPolicy(p)
  \/ \E dir \in Dirs, args \in Commands : Run(dir, args)
  \/ \E op \in PolicyOperations : RunWithContext(op)

SpecPolicy == Init /\ [][PolicyNext]_vars

(***************************************************************************)
(* The package's pure functions, ExtractPath and ValidatePackageName,      *)
(* called on the inputs below.                                             *)
(***************************************************************************)
\* the Extract rules of the callers: every type, with and without the
\* settings its extraction needs, with and without strip_filename
ExtractRules ==
  {NilExtract} \cup
  {[r EXCEPT !.StripFilename = strip] :
     strip \in BOOLEAN,
     r \in { Extract,
             [Extract EXCEPT !.Type = "raw"],
             [Extract EXCEPT !.Type = "json", !.Field = "Dir"],
             [Extract EXCEPT !.Type = "json"],
             [Extract EXCEPT !.Type = "line_prefix", !.Prefix = Chars("Path:")],
             [Extract EXCEPT !.Type = "line_prefix"],
             [Extract EXCEPT !.Type = "regex", !.Pattern = Chars("dir=(\\S+)")],
             [Extract EXCEPT !.Type = "regex", !.Pattern = Chars("dir=\\S+")],
             [Extract EXCEPT !.Type = "regex", !.Pattern = Chars("(")],
             [Extract EXCEPT !.Type = "regex"],
             [Extract EXCEPT !.Type = "json_array", !.ArrayField = "pkgs",
                             !.MatchField = "name", !.ExtractField = "path"],
             [Extract EXCEPT !.Type = "json_array", !.ArrayField = "pkgs",
                             !.MatchField = "name"],
             [Extract EXCEPT !.Type = "template", !.Pattern = Chars("m/{package}")],
             [Extract EXCEPT !.Type = "template", !.Pattern = Chars("m/{package}/f")],
             [Extract EXCEPT !.Type = "template", !.Pattern = Chars("{package}")],
             [Extract EXCEPT !.Type = "template"],
             [Extract EXCEPT !.Type = "yaml", !.Pattern = Chars("m/{package}")] }}

\* the command outputs of the callers
Outputs ==
  Stdouts \cup {Marshal(d) : d \in JsonDocs} \cup
  { <<" ">> \o Chars("/x/y/f") \o <<" ", "\n">>,
    Chars("oops") \o <<"\n">> \o Chars("Path:") \o <<" ">> \o Chars("/x/y/f")
      \o <<" ", "\n">> \o Chars("Path:") \o Chars("/n/f"),
    Chars("oops") \o <<" ">> \o Chars("dir=") \o Chars("/x/y/f") \o <<" ">>
      \o Chars("dir=") \o Chars("/n/f") }

\* the package names, validator names and names of the callers
PackageNames == {Chars(pkg) : pkg \in Packages}
ValidatorNames == {"package_name", "gem_name", "other"}
Names == {"", "lodash", "npm", "bad name", "1.0",
          LongName(129), LongName(215), LongName(215) \o " "}

\* a call of ExtractPath; the function reads nothing but its arguments, so
\* one call from the initial state shows all it can return
CallExtractPath(output, extract, pkg) ==
  /\ ~extraction.called /\ ~validation.called
  /\ LET r == ExtractPath(output, extract, pkg)
     IN  extraction' = [called |-> TRUE, output |-> output, extract |-> extract,
                        pkg |-> pkg, result |-> r.result, err |-> r.err]
  /\ UNCHANGED <<tvars, mvars, pvars, validation, dvars, mdir>>

\* a call of ValidatePackageName, likewise
CallValidatePackageName(validatorName, name) ==
  /\ ~extraction.called /\ ~validation.called
  /\ validation' = [called |-> TRUE, validatorName |-> validatorName, name |-> name,
                    err |-> ValidatePackageName(validatorName, name)]
  /\ UNCHANGED <<tvars, mvars, pvars, extraction, dvars, mdir>>

FunctionsNext ==
  \/ \E output \in Outputs, extract \in ExtractRules, pkg \in PackageNames :
       CallExtractPath(output, extract, pkg)
  \/ \E validatorName \in ValidatorNames, name \in Names :
       CallValidatePackageName(validatorName, name)

SpecFunctions == Init /\ [][FunctionsNext]_vars

(***************************************************************************)
(* The Detector (extractor.go).                                            *)
(***************************************************************************)
\* largest number of Register calls on one Detector
MaxDefinitions == 3

\* a Definition with its detection hints (definitions.Detection) and no
\* commands
DetectedDef(name, lockfiles, manifests, priority) ==
  [Name |-> name, Binary |-> name, Commands |-> EmptyMap,
   Detection |-> [Lockfiles |-> lockfiles, Manifests |-> manifests,
                  Priority |-> priority]]

\* the Definitions a caller may Register with the Detector: two of them share
\* a manifest, two share a priority, one has two lockfiles
DetectorDefs ==
  { DetectedDef("yarn", <<"yarn.lock">>, <<"package.json">>, 20),
    DetectedDef("npm", <<"package-lock.json", "npm-shrinkwrap.json">>,
                <<"package.json">>, 10),
    DetectedDef("bundler", <<"Gemfile.lock">>, <<"Gemfile">>, 10) }

\* the files a project directory may hold
ProjectFiles == {"yarn.lock", "package-lock.json", "npm-shrinkwrap.json",
                 "Gemfile.lock", "package.json", "Gemfile"}

ErrNoManifest(dir) == [kind |-> "ErrNoManifest", name |-> dir, reason |-> ""]
ErrCLINotFound(def) == [kind |-> "ErrCLINotFound", name |-> def.Name, reason |-> def.Binary]
ErrConflictingLockfiles(dir) ==
  [kind |-> "ErrConflictingLockfiles", name |-> dir, reason |-> ""]
ErrReadDir == [kind |-> "ReadDir error", name |-> "", reason |-> ""]

\* a (Manager, error) pair; errFiles is the Files or Lockfiles of the error
Detected(def, dir) ==
  [manager |-> def.Name, isNil |-> FALSE, dir |-> dir, err |-> NoErr, errFiles |-> <<>>]
NotDetected(err, files) ==
  [manager |-> "", isNil |-> TRUE, dir |-> "", err |-> err, errFiles |-> files]

\* sortDefinitions: sort.Slice by descending priority; the sort is not
\* stable, so definitions of equal priority end in any order
sortDefinitions(defs) ==
  {sorted \in {[i \in 1..Len(defs) |-> defs[p[i]]] : p \in Perms(1..Len(defs))} :
     \A i, j \in 1..Len(sorted) :
       i < j => sorted[i].Detection.Priority >= sorted[j].Detection.Priority}

\* the first loop of Detect: every lockfile of every definition that is in
\* the directory, with its definition, in the order of the definitions
RECURSIVE lockfileMatches(_, _)
lockfileMatches(defs, fileSet) ==
  IF defs = <<>> THEN <<>>
  ELSE LET present(lockfile) == lockfile \in fileSet
           names == SelectSeq(Head(defs).Detection.Lockfiles, present)
       IN  [i \in 1..Len(names) |-> [def |-> Head(defs), lockfile |-> names[i]]]
           \o lockfileMatches(Tail(defs), fileSet)

\* the second loop of Detect: the first manifest of the first definition
\* that is in the directory; <<>> if there is none
RECURSIVE manifestMatches(_, _)
manifestMatches(defs, fileSet) ==
  IF defs = <<>> THEN <<>>
  ELSE LET present(manifest) == manifest \in fileSet
           names == SelectSeq(Head(defs).Detection.Manifests, present)
       IN  IF names # <<>> THEN <<[def |-> Head(defs), manifest |-> names[1]]>>
           ELSE manifestMatches(Tail(defs), fileSet)

\* Detector.buildManager; onPath tells whether exec.LookPath finds the binary
buildManager(def, dir, files, requireCLI, onPath) ==
  IF requireCLI /\ ~onPath THEN NotDetected(ErrCLINotFound(def), files)
  ELSE Detected(def, dir)

RECURSIVE detectExplicit(_, _, _, _)
detectExplicit(defs, dir, managerName, onPath) ==
  IF defs = <<>> THEN NotDetected(ErrNoManifest(dir), <<>>)
  ELSE IF Head(defs).Name = managerName
       THEN buildManager(Head(defs), dir, <<>>, TRUE, onPath)
  ELSE detectExplicit(Tail(defs), dir, managerName, onPath)

\* Detect that takes the first manifest match before it looks at lockfiles
Detect_ManifestFirst(defs, dir, fileSet, readable, opts, onPath) ==
  IF opts.Manager # "" THEN detectExplicit(defs, dir, opts.Manager, onPath)
  ELSE IF ~readable THEN NotDetected(ErrReadDir, <<>>)
  ELSE LET matches == lockfileMatches(defs, fileSet)
           manifests == manifestMatches(defs, fileSet)
       IN  IF manifests # <<>>
           THEN buildManager(manifests[1].def, dir, <<manifests[1].manifest>>,
                             opts.RequireCLI, onPath)
           ELSE IF Len(matches) >= 1
           THEN buildManager(matches[1].def, dir, <<matches[1].lockfile>>,
                             opts.RequireCLI, onPath)
           ELSE NotDetected(ErrNoManifest(dir), <<>>)

\* Detect that takes the first lockfile match whatever OnConflict says
Detect_NeverConflicts(defs, dir, fileSet, readable, opts, onPath) ==
  IF opts.Manager # "" THEN detectExplicit(defs, dir, opts.Manager, onPath)
  ELSE IF ~readable THEN NotDetected(ErrReadDir, <<>>)
  ELSE LET matches == lockfileMatches(defs, fileSet)
           manifests == manifestMatches(defs, fileSet)
       IN  IF Len(matches) >= 1
           THEN buildManager(matches[1].def, dir, <<matches[1].lockfile>>,
                             opts.RequireCLI, onPath)
           ELSE IF manifests # <<>>
           THEN buildManager(manifests[1].def, dir, <<manifests[1].manifest>>,
                             opts.RequireCLI, onPath)
           ELSE NotDetected(ErrNoManifest(dir), <<>>)

\* Detector.Detect on a directory that holds fileSet, or that os.ReadDir
\* cannot read
Detect(defs, dir, fileSet, readable, opts, onPath) ==
  IF opts.Manager # "" THEN detectExplicit(defs, dir, opts.Manager, onPath)
  ELSE IF ~readable THEN NotDetected(ErrReadDir, <<>>)
  ELSE LET matches == lockfileMatches(defs, fileSet)
           manifests == manifestMatches(defs, fileSet)
       IN  IF Len(matches) > 1 /\ opts.OnConflict = "ConflictError"
           THEN NotDetected(ErrConflictingLockfiles(dir),
                            [i \in 1..Len(matches) |-> matches[i].lockfile])
           ELSE IF Len(matches) >= 1
           THEN buildManager(matches[1].def, dir, <<matches[1].lockfile>>,
                             opts.RequireCLI, onPath)
           ELSE IF manifests # <<>>
           THEN buildManager(manifests[1].def, dir, <<manifests[1].manifest>>,
                             opts.RequireCLI, onPath)
           ELSE NotDetected(ErrNoManifest(dir), <<>>)

\* Detector.Register: append, register with the Translator, sort
DetectorRegister(def) ==
  /\ Len(detector) < MaxDefinitions
  /\ detector' \in sortDefinitions(Append(detector, def))
  /\ definitions' = (def.Name :> def) @@ definitions
  /\ detection' = NoDetection
  /\ UNCHANGED <<validators, input, last, mvars, pvars, fvars, mdir>>

\* the options and directories of the callers
ConflictBehaviors == {"ConflictError", "ConflictUseFirst", "ConflictUseNewest"}
DetectOptionsSet ==
  {[DetectOptions EXCEPT !.RequireCLI = r, !.OnConflict = c, !.Manager = m] :
     r \in BOOLEAN, c \in ConflictBehaviors, m \in {"", "npm"}}
ProjectDir == "/p"

\* a call of Detector.Detect
CallDetect(fileSet, readable, opts, onPath) ==
  /\ ~detection.called
  /\ LET r == Detect(detector, ProjectDir, fileSet, readable, opts, onPath)
     IN  detection' = [called |-> TRUE, files |-> fileSet, readable |-> readable,
                       opts |-> opts, onPath |-> onPath,
                       manager |-> r.manager, isNil |-> r.isNil, dir |-> r.dir,
                       err |-> r.err, errFiles |-> r.errFiles]
  /\ UNCHANGED <<tvars, mvars, pvars, fvars, detector, mdir>>

DetectorNext ==
  \/ \E def \in DetectorDefs : DetectorRegister(def)
  \/ \E fileSet \in SUBSET ProjectFiles, opts \in DetectOptionsSet, onPath \in BOOLEAN :
       CallDetect(fileSet, TRUE, opts, onPath)
  \/ \E opts \in DetectOptionsSet : CallDetect({}, FALSE, opts, TRUE)

SpecDetector == Init /\ [][DetectorNext]_vars

(***************************************************************************)
(* Properties.                                                             *)
(***************************************************************************)
\* the last call was a BuildCommand / BuildCommands on a registered manager
\* that has a rule for the operation
Resolved ==
  /\ last.manager \in DOMAIN definitions
  /\ last.operation \in DOMAIN definitions[last.manager].Commands
LastDef == definitions[last.manager]
LastCmd == definitions[last.manager].Commands[last.operation]
Built == last.kind = "BuildCommand" /\ last.err = NoErr

\* the last Len(e) tokens of tokens are e
EndsWith(tokens, e) ==
  /\ Len(tokens) >= Len(e)
  /\ SubSeq(tokens, Len(tokens) - Len(e) + 1, Len(tokens)) = e

\* C1: two successive BuildCommand calls for the same manager, operation and
\* input, with the same registered definitions and validators, return the
\* same token vector and the same error.
C1_Determinism ==
  [][ ( /\ last.kind = "BuildCommand"
        /\ last'.kind = "BuildCommand"
        /\ last'.manager = last.manager
        /\ last'.operation = last.operation
        /\ input' = input
        /\ definitions' = definitions
        /\ validators' = validators )
      => (last'.tokens = last.tokens /\ last'.err = last.err) ]_vars

\* C2: when BuildCommand succeeds on a command without base overrides, no
\* token between the base tokens and the Extra tokens is the value supplied
\* for an arg whose rule sets extraction_only.
C2_ExtractionOnlyNotRendered ==
  (Built /\ Resolved /\ DOMAIN LastCmd.BaseOverrides = {}) =>
    \A name \in DOMAIN LastCmd.Args :
      (LastCmd.Args[name].ExtractionOnly /\ name \in DOMAIN input.Args) =>
        \A i \in (Len(LastCmd.Base) + 2)..(Len(last.tokens) - Len(input.Extra)) :
          last.tokens[i] # input.Args[name]

\* the required args of the last call's command that the input does not supply
MissingRequired ==
  {name \in DOMAIN LastCmd.Args :
     LastCmd.Args[name].Required /\ name \notin DOMAIN input.Args}

\* the supplied values that exceed the maximum length of the registered
\* validator their arg rule names
TooLong ==
  {input.Args[name] : name \in
     {n \in DOMAIN LastCmd.Args \cap DOMAIN input.Args :
        /\ LastCmd.Args[n].Validate \in DOMAIN validators
        /\ validators[LastCmd.Args[n].Validate].MaxLength > 0
        /\ Len(input.Args[n]) > validators[LastCmd.Args[n].Validate].MaxLength}}

\* C3 as stated: a BuildCommand call that leaves a required arg out of
\* input.Args returns ErrMissingArgument and a nil vector.
C3_RequiredArgumentLaw ==
  (last.kind = "BuildCommand" /\ Resolved /\ MissingRequired # {}) =>
    (last.err.kind = "ErrMissingArgument" /\ last.isNil)

\* C3 amended: a BuildCommand call that leaves a required arg out of
\* input.Args returns a nil vector and an error: ErrMissingArgument naming a
\* required arg the input lacks or, only if a supplied value exceeds the
\* maximum length of its registered validator, ErrInvalidPackageName for
\* such a value.
C3_RequiredArgumentLawAmended ==
  (last.kind = "BuildCommand" /\ Resolved /\ MissingRequired # {}) =>
    /\ last.isNil
    /\ last.tokens = <<>>
    /\ \/ last.err.kind = "ErrMissingArgument" /\ last.err.name \in MissingRequired
       \/ last.err.kind = "ErrInvalidPackageName" /\ last.err.name \in TooLong
    /\ TooLong = {} => last.err.kind = "ErrMissingArgument"

\* a call without the required url, with another arg, a truthy flag and Extra
\* tokens supplied, that returned ErrMissingArgument
C3_Witness ==
  /\ last.kind = "BuildCommand"
  /\ last.manager = "testpkg" /\ last.operation = "add"
  /\ Resolved
  /\ MissingRequired = {"url"}
  /\ "package" \in DOMAIN input.Args
  /\ \E f \in DOMAIN input.Flags : isTruthy(input.Flags[f])
  /\ input.Extra # <<>>
  /\ last.err = ErrMissingArgument("url")

\* C4: the vector a successful BuildCommand returns ends with the input's
\* Extra tokens, unmodified and in the given order.
C4_ExtraTrailing ==
  Built => EndsWith(last.tokens, input.Extra)

\* a successful build with two Extra tokens in which the version-suffix rule
\* and a flag rule fired
C4_Witness ==
  /\ Built
  /\ last.manager = "npm" /\ last.operation = "add"
  /\ Len(input.Extra) = MaxExtra
  /\ input.Extra # <<>>
  /\ "version" \in DOMAIN input.Args
  /\ "dev" \in DOMAIN input.Flags /\ isTruthy(input.Flags["dev"])
  /\ \E i \in 1..Len(last.tokens) : last.tokens[i] = "--save-dev"

\* the override flags of cmd that are truthy in the input
FiredFlags(cmd, in) ==
  {F \in DOMAIN cmd.BaseOverrides \cap DOMAIN in.Flags : isTruthy(in.Flags[F])}

\* cmd with the override of F as its base, no overrides and no flag rule for F
WithOverride(cmd, F) ==
  [cmd EXCEPT !.Base = cmd.BaseOverrides[F],
              !.BaseOverrides = EmptyMap,
              !.Flags = [n \in DOMAIN cmd.Flags \ {F} |-> cmd.Flags[n]]]

\* the tokens of seq, as a set
Tokens(seq) == {seq[i] : i \in 1..Len(seq)}

VersionCase ==
  /\ Built /\ Resolved
  /\ {"package", "version"} \subseteq DOMAIN LastCmd.Args
  /\ LastCmd.Args["version"].Suffix # ""
  /\ {"package", "version"} \subseteq DOMAIN input.Args

\* the index of x in the sequence seq of distinct elements
PositionIn(seq, x) == CHOOSE i \in 1..Len(seq) : seq[i] = x

\* where a build that visits its maps in order o renders the package value:
\* the vector is the binary, the base, and the args visited up to the package
PackagePos(cmd, in, binary, o) ==
  LET F == baseOverride(cmd, in, o.ov)
      base == IF F # "" THEN cmd.BaseOverrides[F] ELSE cmd.Base
  IN  Len(renderArgs(validators, cmd, in,
                     SubSeq(o.arg, 1, PositionIn(o.arg, "package")),
                     <<binary>> \o base).tokens)

\* the vector holds package+suffix+version once, where the package was
\* rendered, and the version nowhere before the Extra tokens
VersionJoined ==
  LET joined == input.Args["package"] \o LastCmd.Args["version"].Suffix
                  \o input.Args["version"]
  IN  /\ \E o \in Orders(LastCmd, input) :
           LET pos == PackagePos(LastCmd, input, LastDef.Binary, o)
           IN  /\ pos <= Len(last.tokens)
               /\ last.tokens[pos] = joined
               /\ \A i \in 1..Len(last.tokens) : last.tokens[i] = joined => i = pos
      /\ \A i \in 1..(Len(last.tokens) - Len(input.Extra)) :
           last.tokens[i] # input.Args["version"]

\* C6 as stated: with a version suffix rule and both package and version
\* supplied, the vector holds the single token package+suffix+version at the
\* position where the package was rendered and no separate version token.
C6_VersionSuffix ==
  VersionCase => VersionJoined

\* the vectors BuildCommand may return for the last call's key
SingleResults ==
  {BuildCommand(definitions, validators, last.manager, last.operation, input, o) :
     o \in CallOrders(definitions, last.manager, last.operation, input)}

\* the results of building the i-th `then` entry of the last call's command
ThenResults(i) ==
  {buildSingleCommand(validators, LastDef.Binary, LastCmd.Then[i], input, o) :
     o \in Orders(LastCmd.Then[i], input)}

\* C7: a successful BuildCommands returns 1 + len(then) vectors, the first a
\* vector BuildCommand returns for the same key and the (i+1)-th the build of
\* the i-th `then` entry with the same binary and input; it fails, with a nil
\* result and the error of an element, exactly when some element fails.
C7_Chain ==
  (last.kind = "BuildCommands" /\ Resolved) =>
    /\ last.err = NoErr =>
         /\ ~last.isNil
         /\ Len(last.chain) = 1 + Len(LastCmd.Then)
         /\ \E r \in SingleResults : r.err = NoErr /\ last.chain[1] = r.tokens
         /\ \A i \in 1..Len(LastCmd.Then) :
              \E r \in ThenResults(i) : r.err = NoErr /\ last.chain[i + 1] = r.tokens
    /\ last.err # NoErr =>
         /\ last.isNil
         /\ last.chain = <<>>
         /\ \/ \E r \in SingleResults : r.err = last.err
            \/ \E i \in 1..Len(LastCmd.Then) : \E r \in ThenResults(i) : r.err = last.err
    /\ ( \/ \A r \in SingleResults : r.err # NoErr
         \/ \E i \in 1..Len(LastCmd.Then) : \A r \in ThenResults(i) : r.err # NoErr )
       => last.err # NoErr

\* a chain of two vectors: the add command and its `then` entry
C7_Witness ==
  /\ last.kind = "BuildCommands" /\ Resolved
  /\ last.err = NoErr
  /\ Len(LastCmd.Then) = 1
  /\ Len(last.chain) = 2
  /\ last.chain[2] = <<"testpkg", "repo", "update", "--version", "1.0">> \o input.Extra

\* C8: BuildCommand on an unregistered manager name fails with the
\* unknown-manager error whatever the operation, on a registered manager
\* without a rule for the operation with ErrUnsupportedOperation; each of the
\* four error kinds is returned for its own cause only, and every error comes
\* with a nil token vector.
C8_ErrorKinds ==
  last.kind = "BuildCommand" =>
    /\ last.manager \notin DOMAIN definitions <=> last.err.kind = "unknown manager"
    /\ (last.manager \in DOMAIN definitions /\ ~Resolved)
         <=> last.err = ErrUnsupportedOperation
    /\ last.err.kind = "ErrMissingArgument" =>
         Resolved /\ last.err.name \in MissingRequired
    /\ last.err.kind = "ErrInvalidPackageName" =>
         Resolved /\ last.err.name \in TooLong
    /\ last.err.kind \in {"nil", "unknown manager", "ErrUnsupportedOperation",
                          "ErrMissingArgument", "ErrInvalidPackageName"}
    /\ last.err # NoErr <=> last.isNil
    /\ last.isNil => last.tokens = <<>>

\* an unsupported operation on a registered manager, with a non-empty input
C8_Witness ==
  /\ last.kind = "BuildCommand"
  /\ last.manager \in DOMAIN definitions
  /\ last.err = ErrUnsupportedOperation
  /\ last.isNil
  /\ input.Args # EmptyMap /\ input.Extra # <<>>

\* the supplied values that the validator their arg rule names rejects
\* (ValidatePackageName: empty, too long, or not matching the pattern)
Rejected ==
  {input.Args[name] : name \in
     {n \in DOMAIN LastCmd.Args \cap DOMAIN input.Args :
        /\ LastCmd.Args[n].Validate # ""
        /\ ValidatePackageName(LastCmd.Args[n].Validate, input.Args[n]) # NoErr}}

\* C9: a BuildCommand call that supplies every required arg, and for an arg
\* whose rule names a validator a value that validator rejects, fails with
\* ErrInvalidPackageName and returns no vector.
C9_ValidatorRejects ==
  (last.kind = "BuildCommand" /\ Resolved /\ MissingRequired = {} /\ Rejected # {}) =>
    (last.err.kind = "ErrInvalidPackageName" /\ last.isNil)

\* C10: when the manager's definition declares a `then` chain for add and
\* every command the Runner was handed succeeded, Add has handed the Runner
\* the whole chain BuildCommands returns, in order.
C10_ChainHandedToRunner ==
  ( /\ ret.op = "Add"
    /\ ret.err = NoErr /\ ret.hasResult /\ ret.exitCode = 0
    /\ definitions[mgr].Commands["add"].Then # <<>> ) =>
    \E orders \in ChainOrders(definitions, mgr, "add", input) :
      LET r == BuildCommands(definitions, validators, mgr, "add", input, orders)
      IN  r.err = NoErr /\ [i \in 1..Len(ran) |-> ran[i].args] = r.chain

\* the last call of the PolicyRunner was a Run or a RunWithContext
PolicyRan == call.kind \in {"Run", "RunWithContext"}

\* what the i-th registered policy answers for the last call's operation
Answer(i) == Check(pr.policies[i], call)

\* the registered policies that do not allow the last call's operation
\* (a denial or a failed check)
NotAllowing == {i \in 1..Len(pr.policies) : Answer(i).isErr \/ ~Answer(i).Allowed}

\* the Check calls of the last run were made on the first n registered
\* policies, in registration order, each once
ConsultedInOrder(n) ==
  /\ Len(checks) = n
  /\ n <= Len(pr.policies)
  /\ \A i \in 1..n : /\ checks[i].index = i
                     /\ checks[i].policy = pr.policies[i].name
                     /\ checks[i].result = Answer(i)

\* what the inner runner may return for the last call's command
InnerResults == {RunResult(call.kind, call.Command, o) : o \in RunnerOutcomes}

\* the inner runner ran once, with the call's directory and arguments, and
\* its result was returned
InnerRanOnce ==
  /\ innerRuns = <<[dir |-> call.WorkingDir, args |-> call.Command]>>
  /\ ret \in InnerResults

\* C11: in enforce mode a run consults the policies in registration order
\* up to the first that does not allow the operation; if that one denies, the
\* run returns ErrPolicyViolation naming it and the inner runner is not
\* invoked; the inner runner is invoked, once and after every check, exactly
\* when every policy allowed.
C11_EnforceFirstDenyWins ==
  (PolicyRan /\ pr.mode = "enforce") =>
    /\ NotAllowing = {} =>
         /\ ConsultedInOrder(Len(pr.policies))
         /\ InnerRanOnce
    /\ NotAllowing # {} =>
         LET k == CHOOSE i \in NotAllowing : \A j \in NotAllowing : i <= j
         IN  /\ ConsultedInOrder(k)
             /\ innerRuns = <<>>
             /\ ~ret.hasResult
             /\ ~Answer(k).isErr =>
                  ret.err = ErrPolicyViolation(pr.policies[k].name, Answer(k).Reason)
    /\ Len(innerRuns) <= 1

\* a run in enforce mode with an allowing, a denying and an allowing policy,
\* the last registered by AddPolicy: the second is the last one consulted
C11_Witness ==
  /\ PolicyRan /\ pr.mode = "enforce"
  /\ pr.policies = <<AllowAllPolicy, DenyAllPolicy("testing"), AllowAllPolicy>>
  /\ Len(checks) = 2
  /\ ret.err = ErrPolicyViolation("deny-all", "testing")
  /\ innerRuns = <<>>

\* C12: in warn mode a run checks every registered policy, in order, and
\* then invokes the inner runner once and returns its result.
C12_WarnRunsCommand ==
  (PolicyRan /\ pr.mode = "warn") =>
    /\ ConsultedInOrder(Len(pr.policies))
    /\ InnerRanOnce

\* C13: in disabled mode a run invokes the inner runner once with the call's
\* directory and argument vector, returns its result, and calls no Check and
\* no handler.
C13_DisabledPassthrough ==
  (PolicyRan /\ pr.mode = "disabled") =>
    /\ InnerRanOnce
    /\ checks = <<>>
    /\ handled = <<>>

\* a disabled runner with a handler, a denying and a failing policy that ran
\* a command
C13_Witness ==
  /\ PolicyRan /\ pr.mode = "disabled"
  /\ pr.handler
  /\ \E i, j \in 1..Len(pr.policies) :
       pr.policies[i].name = "deny-all" /\ pr.policies[j].name = "error-policy"
  /\ call.Command = <<"npm", "install", "event-stream">>
  /\ Len(innerRuns) = 1

\* C14: with a PackageBlocklistPolicy registered (next to policies that
\* allow everything) on a runner in enforce mode, Run(dir, "npm", "install",
\* p) for a blocked p returns ErrPolicyViolation and the inner runner is not
\* invoked.
C14_BlocklistBlocksRun ==
  ( /\ call.kind = "Run" /\ pr.mode = "enforce"
    /\ \E i \in 1..Len(pr.policies) : pr.policies[i].name = "package-blocklist"
    /\ \A i \in 1..Len(pr.policies) :
         pr.policies[i].name \in {"package-blocklist", "allow-all"}
    /\ \E p \in DOMAIN Blocklist : call.Command = <<"npm", "install", p>> ) =>
    /\ ret.err.kind = "ErrPolicyViolation"
    /\ innerRuns = <<>>

\* the errors ExtractPath returns
ExtractErrorKinds ==
  {"unknown extract type", "json extraction requires field name",
   "failed to parse JSON", "field not found in JSON", "field is not a string",
   "line_prefix extraction requires prefix", "no line found with prefix",
   "regex extraction requires pattern", "invalid regex pattern",
   "pattern did not match or no capture group found",
   "template extraction requires pattern",
   "template extraction requires package name",
   "json_array extraction requires array_field, match_field, and extract_field",
   "field is not an array", "no element found with",
   "field is not a string in matched element"}

\* the last operation was a Path whose command the Runner ran without an
\* error and whose extraction failed
PathExtractionFailed ==
  /\ ret.op = "Path"
  /\ Len(ran) = 1
  /\ ret.err.kind \in ExtractErrorKinds

\* C15: when the Runner ran the command of Path without an error and
\* ExtractPath failed, Path returns a PathResult with the Runner's Result
\* (its command, exit code and output), an empty Path, and the error
\* ExtractPath returned for that output.
C15_PathKeepsResult ==
  PathExtractionFailed =>
    /\ ret.hasResult
    /\ ret.path = <<>>
    /\ ret.command = ran[1].args
    /\ ret.stdout \in Stdouts
    /\ ret.err = ExtractPath(ret.stdout, definitions[mgr].Commands["path"].Extract,
                             Chars(input.Args["package"])).err

\* gomod's path command ran without an error and printed something that is
\* not JSON
C15_Witness ==
  /\ PathExtractionFailed
  /\ mgr = "gomod"
  /\ ret.exitCode = 0
  /\ ret.stdout = Chars("oops")
  /\ ret.err.kind = "failed to parse JSON"

(***************************************************************************)
(* Claims about ExtractPath and ValidatePackageName (SpecFunctions).       *)
(***************************************************************************)
\* the extraction types ExtractPath recognizes by name
RecognizedTypes == {"raw", "json", "line_prefix", "regex", "json_array", "template"}

\* what the last ExtractPath call produces with the same output, rule and
\* package when the rule does not ask for filename stripping
Unstripped ==
  ExtractPath(extraction.output,
              [extraction.extract EXCEPT !.StripFilename = FALSE],
              extraction.pkg)

\* C16: when the rule of a recognized type sets strip_filename and the
\* extraction succeeds, ExtractPath returns the extracted value with its
\* trailing path component removed (filepath.Dir of it), for every
\* extraction type, raw included.
C16_StripFilenameEveryType ==
  ( /\ extraction.called
    /\ ~extraction.extract.isNil
    /\ extraction.extract.Type \in RecognizedTypes
    /\ extraction.extract.StripFilename
    /\ extraction.err = NoErr )
  => extraction.result = Dir(Unstripped.result)

\* the last call was ExtractPath with a template rule of non-empty pattern
TemplateCall ==
  /\ extraction.called
  /\ ~extraction.extract.isNil
  /\ extraction.extract.Type = "template"
  /\ extraction.extract.Pattern # <<>>

\* the pattern of the last call with every {package} replaced by the package
Substituted ==
  ReplaceAll(extraction.extract.Pattern, Chars("{package}"), extraction.pkg)

\* C17 as stated: a template rule with a non-empty pattern and a non-empty
\* package name returns the pattern with every {package} replaced by the
\* package name, the same for every command output; with an empty package
\* name it fails.
C17_TemplateSubstitutes ==
  TemplateCall =>
    IF extraction.pkg = <<>>
    THEN extraction.err.kind = "template extraction requires package name"
         /\ extraction.result = <<>>
    ELSE /\ extraction.err = NoErr
         /\ extraction.result = Substituted
         /\ \A output \in Outputs :
              ExtractPath(output, extraction.extract, extraction.pkg).result
                = extraction.result

\* C17 amended: the value returned is the substituted pattern, passed
\* through filepath.Dir when the rule sets strip_filename; it is the same
\* for every command output, and an empty package name fails.
C17_TemplateSubstitutesThenStrips ==
  TemplateCall =>
    IF extraction.pkg = <<>>
    THEN extraction.err.kind = "template extraction requires package name"
         /\ extraction.result = <<>>
    ELSE /\ extraction.err = NoErr
         /\ extraction.result = IF extraction.extract.StripFilename
                                THEN Dir(Substituted) ELSE Substituted
         /\ \A output \in Outputs :
              ExtractPath(output, extraction.extract, extraction.pkg)
                = [result |-> extraction.result, err |-> NoErr]

\* m/{package}/f with package lodash gave m/lodash/f although the command
\* printed something else
C17_Witness ==
  /\ TemplateCall
  /\ extraction.extract.Pattern = Chars("m/{package}/f")
  /\ ~extraction.extract.StripFilename
  /\ extraction.pkg = Chars("lodash")
  /\ extraction.output = Chars("oops")
  /\ extraction.result = <<"m", "/">> \o Chars("lodash") \o <<"/", "f">>

\* the same rule with strip_filename gave m/lodash
C17_Stripped ==
  /\ TemplateCall
  /\ extraction.extract.Pattern = Chars("m/{package}/f")
  /\ extraction.extract.StripFilename
  /\ extraction.pkg = Chars("lodash")
  /\ extraction.result = <<"m", "/">> \o Chars("lodash")

\* the last call was ExtractPath with a non-nil rule whose type is none of
\* the recognized ones
UnrecognizedTypeCall ==
  /\ extraction.called
  /\ ~extraction.extract.isNil
  /\ extraction.extract.Type \notin RecognizedTypes

\* the call failed with the unknown-extract-type error and an empty result
FailedAsUnknownType ==
  /\ extraction.err.kind = "unknown extract type"
  /\ extraction.err.name = extraction.extract.Type
  /\ extraction.result = <<>>

\* C18 as stated: a non-nil rule whose type is not one of raw, json,
\* line_prefix, regex, json_array, template fails with the
\* unknown-extract-type error and returns the empty string.
C18_UnknownTypeFails ==
  UnrecognizedTypeCall => FailedAsUnknownType

\* C18 amended: a non-nil rule whose type is non-empty and not recognized
\* fails with the unknown-extract-type error and returns the empty string;
\* a rule whose type is the empty string is treated as a raw rule.
C18_UnknownNonEmptyTypeFails ==
  UnrecognizedTypeCall =>
    IF extraction.extract.Type = ""
    THEN [result |-> extraction.result, err |-> extraction.err]
           = ExtractPath(extraction.output,
                         [extraction.extract EXCEPT !.Type = "raw"],
                         extraction.pkg)
    ELSE FailedAsUnknownType

\* a yaml rule met an output that a raw rule would have returned
C18_Witness ==
  /\ UnrecognizedTypeCall
  /\ extraction.extract.Type = "yaml"
  /\ extraction.output = Chars("oops")
  /\ FailedAsUnknownType

\* a rule without a type returned the trimmed output
C18_EmptyTypeIsRaw ==
  /\ UnrecognizedTypeCall
  /\ extraction.extract.Type = ""
  /\ extraction.output = <<" ">> \o Chars("/x/y/f") \o <<" ", "\n">>
  /\ extraction.result = Chars("/x/y/f")
  /\ extraction.err = NoErr

\* the three checks of the last ValidatePackageName call, each as failing
EmptyCheckFails == validation.name = ""
LengthCheckFails ==
  \/ validation.validatorName = "package_name" /\ Len(validation.name) > 214
  \/ validation.validatorName = "gem_name" /\ Len(validation.name) > 128
PatternCheckFails ==
  IF validation.validatorName = "gem_name"
  THEN ~MatchGemName(validation.name)
  ELSE ~MatchPackageName(validation.name)

\* C19: ValidatePackageName reports the first failing check in the order
\* empty string, maximum length, pattern, with the reasons "empty name",
\* "exceeds maximum length" and "contains invalid characters"; it returns
\* nil only when all three pass; a validator name that is not in the table
\* is checked against the package_name pattern.
C19_FirstFailingCheckWins ==
  validation.called =>
    validation.err =
      IF EmptyCheckFails THEN ErrInvalidPackageName(validation.name, "empty name")
      ELSE IF LengthCheckFails
           THEN ErrInvalidPackageName(validation.name, "exceeds maximum length")
      ELSE IF PatternCheckFails
           THEN ErrInvalidPackageName(validation.name, "contains invalid characters")
      ELSE NoErr

\* a name that is both too long and ill-formed was reported as too long
C19_Witness ==
  /\ validation.called
  /\ validation.validatorName = "package_name"
  /\ LengthCheckFails /\ PatternCheckFails
  /\ validation.err.reason = "exceeds maximum length"

\* a validator name that is not in the table accepted a name the
\* package_name pattern accepts and the gem_name pattern rejects
C19_UnknownValidator ==
  /\ validation.called
  /\ validation.validatorName = "other"
  /\ validation.name = "1.0"
  /\ ~MatchGemName(validation.name)
  /\ validation.err = NoErr

(***************************************************************************)
(* Claims about the order of positional args (Spec).                       *)
(***************************************************************************)
\* argOrder visits the args of cmd in ascending Position
AscendingPosition(cmd, argOrder) ==
  \A i, j \in 1..Len(argOrder) :
    i < j => cmd.Args[argOrder[i]].Position <= cmd.Args[argOrder[j]].Position

\* C20: the vector a successful BuildCommand returns has the positional args
\* of the command in ascending position, whatever order the maps were
\* visited in: it is a vector that visiting the args in ascending position
\* yields.
C20_ArgsInDeclaredOrder ==
  (Built /\ Resolved) =>
    \E o \in Orders(LastCmd, input) :
      /\ AscendingPosition(LastCmd, o.arg)
      /\ last.tokens = BuildCommand(definitions, validators, last.manager,
                                    last.operation, input, o).tokens

(***************************************************************************)
(* Claims about flags loaded from YAML and flag values (SpecLoaded).       *)
(***************************************************************************)
\* the flags the YAML declares as a literal followed by a value reference
\* with a join
JoinedFlags ==
  {name \in DOMAIN ExampleFlagsYaml :
     /\ Len(ExampleFlagsYaml[name]) = 2
     /\ ExampleFlagsYaml[name][1].kind = "string"
     /\ ExampleFlagsYaml[name][2].kind = "map"
     /\ ExampleFlagsYaml[name][2].value # ""
     /\ ExampleFlagsYaml[name][2].join # ""}

\* the last call built the install command of the loaded definition
BuiltLoaded ==
  /\ Built /\ Resolved
  /\ LastDef = ExampleDef
  /\ last.operation = "install"

\* the input has flag name with a truthy value and the value the flag refers
\* to as a non-empty string
JoinedFlagGiven(name) ==
  /\ name \in DOMAIN input.Flags
  /\ isTruthy(input.Flags[name])
  /\ ExampleFlagsYaml[name][2].value \in DOMAIN input.Flags
  /\ input.Flags[ExampleFlagsYaml[name][2].value].t = "string"
  /\ input.Flags[ExampleFlagsYaml[name][2].value].s # ""

\* C21: a flag declared as a literal followed by a value reference with a
\* join expands to the single token literal+join+value when the flag is
\* truthy and the referenced value is a non-empty string.
C21_JoinedFlagIsOneToken ==
  BuiltLoaded =>
    \A name \in JoinedFlags :
      JoinedFlagGiven(name) =>
        \E i \in 1..Len(last.tokens) :
          last.tokens[i] = ExampleFlagsYaml[name][1].str
                             \o ExampleFlagsYaml[name][2].join
                             \o input.Flags[ExampleFlagsYaml[name][2].value].s

\* a flag value that counts as absent: false, the empty string or nil
AbsentValue(val) == val = BoolV(FALSE) \/ val = StrV("") \/ val = NilV

\* the input without its flag name
WithoutFlag(in, name) ==
  [in EXCEPT !.Flags = [k \in DOMAIN in.Flags \ {name} |-> in.Flags[k]]]

\* the results BuildCommand may return for the last call's manager and
\* operation with input in, over the orders its maps may be visited in
ResultsFor(in) ==
  {BuildCommand(definitions, validators, last.manager, last.operation, in, o) :
     o \in CallOrders(definitions, last.manager, last.operation, in)}

\* C22: a flag whose value is false, the empty string or nil is treated as
\* absent: BuildCommand returns a vector it returns for the input with that
\* flag removed, and the truthiness test of the base overrides and the one
\* of the flag expansion agree on every flag value.
C22_FalsyFlagIsAbsent ==
  last.kind = "BuildCommand" =>
    \A name \in DOMAIN input.Flags :
      /\ isTruthy(input.Flags[name]) <=> ~IsAbsentFlagValue(input.Flags[name])
      /\ AbsentValue(input.Flags[name]) =>
           [tokens |-> last.tokens, isNil |-> last.isNil, err |-> last.err]
             \in ResultsFor(WithoutFlag(input, name))

\* frozen was nil, so the base stayed install, and workspace expanded
C22_Witness ==
  /\ BuiltLoaded
  /\ DOMAIN input.Flags = {"frozen", "workspace"}
  /\ input.Flags["frozen"] = NilV
  /\ input.Flags["workspace"] = StrV("development")
  /\ last.tokens = <<"example", "install", "--workspace", "development">>

(***************************************************************************)
(* Claims about the state BuildCommand and BuildCommands leave (Spec).     *)
(***************************************************************************)
\* a step in which BuildCommand or BuildCommands returned
BuildStep ==
  /\ last' # last
  /\ last'.kind \in {"BuildCommand", "BuildCommands"}

\* what the step returned is what the call returns for the definitions,
\* validators and input from before the step
ReturnedInIsolation ==
  IF last'.kind = "BuildCommand"
  THEN \E o \in CallOrders(definitions, last'.manager, last'.operation, input) :
         [tokens |-> last'.tokens, isNil |-> last'.isNil, err |-> last'.err]
           = BuildCommand(definitions, validators, last'.manager,
                          last'.operation, input, o)
  ELSE \E os \in ChainOrders(definitions, last'.manager, last'.operation, input) :
         [chain |-> last'.chain, isNil |-> last'.isNil, err |-> last'.err]
           = BuildCommands(definitions, validators, last'.manager,
                           last'.operation, input, os)

JsonArrayCall ==
  /\ extraction.called
  /\ ~extraction.extract.isNil
  /\ extraction.extract.Type = "json_array"
  /\ extraction.extract.ArrayField # ""
  /\ extraction.extract.MatchField # ""
  /\ extraction.extract.ExtractField # ""
  /\ ~extraction.extract.StripFilename
  /\ Unmarshal(extraction.output).ok

\* the array the rule names in the output; <<>> with HasArray false if the
\* field is missing or not an array
HasArray ==
  /\ extraction.extract.ArrayField \in DOMAIN Unmarshal(extraction.output).data
  /\ Unmarshal(extraction.output).data[extraction.extract.ArrayField].t = "array"
ArrayItems ==
  IF HasArray
  THEN Unmarshal(extraction.output).data[extraction.extract.ArrayField].items
  ELSE <<>>

\* the indexes of the elements that are objects whose match-field is a
\* string equal to the package name
MatchingItems ==
  {i \in 1..Len(ArrayItems) :
     /\ ArrayItems[i].t = "object"
     /\ extraction.extract.MatchField \in DOMAIN ArrayItems[i].fields
     /\ ArrayItems[i].fields[extraction.extract.MatchField].t = "string"
     /\ ArrayItems[i].fields[extraction.extract.MatchField].s = extraction.pkg}
FirstMatching == ArrayItems[CHOOSE i \in MatchingItems : \A j \in MatchingItems : i <= j]

\* the first matching element has a string under the extract-field
FirstMatchingHasString ==
  /\ extraction.extract.ExtractField \in DOMAIN FirstMatching.fields
  /\ FirstMatching.fields[extraction.extract.ExtractField].t = "string"

\* C24 as stated: json_array extraction returns the extract-field of the
\* first element, in array order, that is an object whose match-field is a
\* string equal to the package name; it fails if the array field is missing
\* or not an array, if no element matches, or if the first matching
\* element's extract-field is not a string.
C24_FirstMatchingElement ==
  JsonArrayCall =>
    IF ~HasArray \/ MatchingItems = {} \/ ~FirstMatchingHasString
    THEN extraction.err # NoErr /\ extraction.result = <<>>
    ELSE /\ extraction.err = NoErr
         /\ extraction.result = FirstMatching.fields[extraction.extract.ExtractField].s

\* C24 amended: the value returned is the extract-field of that element
\* with the white space around it trimmed.
C24_FirstMatchingElementTrimmed ==
  JsonArrayCall =>
    IF ~HasArray \/ MatchingItems = {} \/ ~FirstMatchingHasString
    THEN extraction.err # NoErr /\ extraction.result = <<>>
    ELSE /\ extraction.err = NoErr
         /\ extraction.result =
              TrimSpace(FirstMatching.fields[extraction.extract.ExtractField].s)

\* of two elements named lodash, after an element named npm and a number,
\* the first one's path was returned
C24_Witness ==
  /\ JsonArrayCall
  /\ Len(ArrayItems) = 4
  /\ Cardinality(MatchingItems) = 2
  /\ extraction.pkg = Chars("lodash")
  /\ extraction.result = Chars("/x/y/f")

\* the first element named lodash had a number for a path and a later one a
\* string, and the call failed
C24_FirstMatchNotString ==
  /\ JsonArrayCall
  /\ Cardinality(MatchingItems) = 2
  /\ ~FirstMatchingHasString
  /\ extraction.err.kind = "field is not a string in matched element"

(***************************************************************************)
(* Claims about Detect (SpecDetector).                                     *)
(***************************************************************************)
\* the last call was Detect without an explicit manager on a directory that
\* could be read
DetectCall ==
  /\ detection.called
  /\ detection.opts.Manager = ""
  /\ detection.readable

\* the registered definitions
Registered == {detector[i] : i \in 1..Len(detector)}

\* the lockfiles (manifests) of def that are in the directory
LockfilesOf(def) ==
  {def.Detection.Lockfiles[i] : i \in 1..Len(def.Detection.Lockfiles)}
    \cap detection.files
ManifestsOf(def) ==
  {def.Detection.Manifests[i] : i \in 1..Len(def.Detection.Manifests)}
    \cap detection.files

\* the registered definitions a lockfile (a manifest) in the directory matches
LockfileMatched == {def \in Registered : LockfilesOf(def) # {}}
ManifestMatched == {def \in Registered : ManifestsOf(def) # {}}

\* the definitions of D with the highest priority in D
HighestPriority(D) ==
  {def \in D : \A other \in D : def.Detection.Priority >= other.Detection.Priority}

\* Detect returned ErrConflictingLockfiles listing the lockfiles present
ConflictReported ==
  /\ detection.isNil
  /\ detection.err = ErrConflictingLockfiles(ProjectDir)
  /\ {detection.errFiles[i] : i \in 1..Len(detection.errFiles)}
       = UNION {LockfilesOf(def) : def \in Registered}

\* Detect returned the manager of a definition among D
ManagerAmong(D) ==
  /\ ~detection.isNil
  /\ detection.err = NoErr
  /\ detection.dir = ProjectDir
  /\ detection.manager \in {def.Name : def \in D}

\* C25 as stated: when lockfiles matching more than one registered
\* definition are present, Detect returns ErrConflictingLockfiles listing
\* them if OnConflict is ConflictError, and otherwise the manager of the
\* matching definition with the highest priority.
C25_ConflictByPriority ==
  (DetectCall /\ Cardinality(LockfileMatched) > 1) =>
    IF detection.opts.OnConflict = "ConflictError" THEN ConflictReported
    ELSE ManagerAmong(HighestPriority(LockfileMatched))

\* C25 amended: otherwise Detect goes on with a matching definition of the
\* highest priority, the only one if no other matching definition has that
\* priority: it returns its manager, or ErrCLINotFound for it when
\* RequireCLI is set and its binary is not found.
C25_ConflictByPriorityOrNoCLI ==
  (DetectCall /\ Cardinality(LockfileMatched) > 1) =>
    IF detection.opts.OnConflict = "ConflictError" THEN ConflictReported
    ELSE IF detection.opts.RequireCLI /\ ~detection.onPath
    THEN /\ detection.isNil
         /\ detection.err \in {ErrCLINotFound(def) :
                                 def \in HighestPriority(LockfileMatched)}
    ELSE ManagerAmong(HighestPriority(LockfileMatched))

\* with the lockfiles of yarn and npm present and ConflictUseFirst, yarn,
\* of the higher priority, was returned
C25_Witness ==
  /\ DetectCall
  /\ {"yarn.lock", "package-lock.json"} \subseteq detection.files
  /\ detection.opts.OnConflict = "ConflictUseFirst"
  /\ Len(detector) = 3
  /\ detection.manager = "yarn"

\* with the lockfiles of npm and bundler present, of equal priority, the
\* manager returned was that of the one the sort left first
C25_EqualPriority ==
  /\ DetectCall
  /\ detection.files = {"Gemfile.lock", "package-lock.json"}
  /\ detection.opts.OnConflict = "ConflictUseNewest"
  /\ Len(detector) = 2
  /\ detector[1].Name = "npm"
  /\ detection.manager = "npm"

\* C30: Detect without an explicit manager chooses by lockfile before
\* manifest: when a lockfile of a registered definition is present, a manager
\* it returns is one matched by lockfile, even if a definition of higher
\* priority matches by manifest only; a manager matched by manifest is
\* returned only when no lockfile matches; ErrNoManifest is returned only
\* when neither a lockfile nor a manifest of a registered definition is
\* present.
C30_LockfileBeforeManifest ==
  DetectCall =>
    /\ (~detection.isNil /\ LockfileMatched # {}) => ManagerAmong(LockfileMatched)
    /\ (~detection.isNil /\ LockfileMatched = {}) => ManagerAmong(ManifestMatched)
    /\ detection.err.kind = "ErrNoManifest" =>
         LockfileMatched = {} /\ ManifestMatched = {}

\* yarn, of the higher priority, matched by package.json only, npm by its
\* lockfile, and npm was returned
C30_Witness ==
  /\ DetectCall
  /\ detection.files = {"package-lock.json", "package.json"}
  /\ Len(detector) = 3
  /\ detector[1].Name = "yarn"
  /\ detector[1] \in ManifestMatched \ LockfileMatched
  /\ detection.manager = "npm"

(***************************************************************************)
(* Claims about failed checks and the handler (SpecPolicy).                *)
(***************************************************************************)
\* the i-th Check call of the last run returned an error
CheckFailed(i) == checks[i].result.isErr

ResultsReturned ==
  LET returned(c) == ~c.result.isErr
      cs == SelectSeq(checks, returned)
  IN  [i \in 1..Len(cs) |-> [policy |-> cs[i].policy, result |-> cs[i].result]]

\* C27: when a handler is set and the mode is not disabled, OnPolicyResult
\* is called exactly once for each policy whose Check returned a result, in
\* policy order, the policy whose denial stops the run in enforce mode
\* included; when the inner runner is invoked every policy has been handled.
C27_HandlerSeesEveryResult ==
  (PolicyRan /\ pr.handler /\ pr.mode # "disabled") =>
    /\ handled = ResultsReturned
    /\ innerRuns # <<>> => Len(handled) = Len(pr.policies)

\* in enforce mode the handler was called for an allowing policy and then
\* for the denying one that stopped the run
C27_Witness ==
  /\ PolicyRan
  /\ pr.handler
  /\ pr.mode = "enforce"
  /\ Len(pr.policies) = 3
  /\ Len(handled) = 2
  /\ handled[1].result.Allowed
  /\ ~handled[2].result.Allowed
  /\ ret.err.kind = "ErrPolicyViolation"
  /\ innerRuns = <<>>

(***************************************************************************)
(* Claims about what the GenericManager hands the Runner (SpecManager).    *)
(***************************************************************************)
\* the operation name each GenericManager method asks the Translator for
OperationOf ==
  [Install |-> "install", Add |-> "add", Remove |-> "remove", List |-> "list",
   Outdated |-> "outdated", Update |-> "update", Vendor |-> "vendor",
   Resolve |-> "resolve", Path |-> "path"]

\* what BuildCommand may return for the last operation of the manager
Translations ==
  {BuildCommand(definitions, validators, mgr, OperationOf[ret.op], input, o) :
     o \in CallOrders(definitions, mgr, OperationOf[ret.op], input)}

C28_Unsupported ==
  /\ ret.op = "Vendor"
  /\ ret.err = ErrUnsupportedOperation
  /\ ran = <<>>

(***************************************************************************)
(* Claims about the head of the vector (Spec).                             *)
(***************************************************************************)
\* the base tokens the last call's command may take effect with: those of
\* an override that may fire for the input, or the declared base
EffectiveBases ==
  {LET fired == baseOverride(LastCmd, input, o.ov)
   IN  IF fired # "" THEN LastCmd.BaseOverrides[fired] ELSE LastCmd.Base :
     o \in Orders(LastCmd, input)}

\* C29: every token vector BuildCommand returns begins with the definition's
\* binary followed by the effective base tokens, unchanged, for every
\* package value: the version-suffix pass never rewrites the binary or a
\* base token.
C29_BinaryAndBaseFirst ==
  (Built /\ Resolved) =>
    \E base \in EffectiveBases :
      /\ Len(last.tokens) >= 1 + Len(base)
      /\ SubSeq(last.tokens, 1, 1 + Len(base)) = <<LastDef.Binary>> \o base

=============================================================================
